---- MODULE Spec2Model ----
(***************************************************************************)
(* A model of the immersed boundary core: the periodic geometry kernel,    *)
(* the force spreading kernel, the per-step driver of                      *)
(* ImmersedBoundarySimulationModifier and the element division of          *)
(* ImmersedBoundaryMesh.                                                   *)
(*                                                                         *)
(* Numbers.  A coordinate of the unit torus is an integer number of        *)
(* lattice units, Scale units making the length 1, so that [0,1) is        *)
(* 0..Scale-1 and 0.5 is HalfScale.  Sums, differences and products are    *)
(* exact; a quotient is rounded towards minus infinity and a square root   *)
(* down to a lattice unit (fixed point in place of the code's doubles).    *)
(* The spreading kernel is evaluated at node positions that are multiples  *)
(* of half a grid spacing, where the cosine takes values in Z[sqrt 2]: a   *)
(* value a + b*sqrt(2) is the pair <<a, b>>.                               *)
(***************************************************************************)
EXTENDS Integers, Sequences, FiniteSets, TLC

VARIABLES
    \* --- periodic geometry kernel (GetVectorFromAtoB applied to inputs) ---
    rLocation1, rLocation2, vectorAtoB,
    \* --- force spreading (PropagateForcesToFluidGrid applied to inputs) ---
    mNumGridPtsX, mNumGridPtsY, spreadNodes, mFluidForceGridX, mFluidForceGridY,
    spreadTrace, spreadDone,
    \* --- simulation modifier: the per-step driver ---
    pc, timeStepsElapsed, mNodeNeighbourUpdateFrequency, mNodePairs, mForceCollection,
    nodeLocations, phaseLog, pairsHanded, refreshLog, stepsRun, appliedForces,
    mFluidForceGrids,
    \* --- mesh: nodes, elements, fluid sources, element division ---
    mNodes, mElements, mElementFluidSources, mMembraneIndex, mElementDivisionSpacing,
    builtFrom, spacingEverSet, lastCall, halted, advections, divisionCalls, everFailed,
    \* --- mesh: fluid grid size, balancing sources, characteristic node spacing ---
    meshNumGridPtsX, meshNumGridPtsY, mBalancingFluidSources, mCharacteristicNodeSpacing,
    \* --- force modules: the object, its archive, and the nodes it acts on ---
    forceObject, archive, lastForceOp, popNodes, elemSpacing,
    \* --- mesh: the average node spacing stored on each element ---
    mAverageNodeSpacing, lastComputedSpacing, lastSpacingCall,
    \* --- mesh: the volume of an element under periodic translation ---
    volNodes, volElements, volOutline, volMoves, firstVolume, lastVolumeCall,
    \* --- upwind scheme: the loops of UpwindScheme over the grid ---
    upNumGridPtsX, upNumGridPtsY, upY, upX, prev_x, next_x, prev_y, next_y, lastUpwindRead,
    \* --- membrane elasticity force: the elements it acts on and the springs of a call ---
    memNodes, memElements, memSprings, memCalls

geomVars   == <<rLocation1, rLocation2, vectorAtoB>>
spreadVars == <<mNumGridPtsX, mNumGridPtsY, spreadNodes, mFluidForceGridX,
                mFluidForceGridY, spreadTrace, spreadDone>>
stepVars   == <<pc, timeStepsElapsed, mNodeNeighbourUpdateFrequency, mNodePairs,
                mForceCollection, nodeLocations, phaseLog, pairsHanded, refreshLog,
                stepsRun, appliedForces, mFluidForceGrids>>
stepForceVars == <<appliedForces, mFluidForceGrids>>
meshVars   == <<mNodes, mElements, mElementFluidSources, mMembraneIndex,
                mElementDivisionSpacing, builtFrom, spacingEverSet, lastCall, halted,
                advections, divisionCalls, everFailed>>
gridVars   == <<meshNumGridPtsX, meshNumGridPtsY, mBalancingFluidSources,
                mCharacteristicNodeSpacing>>
forceVars  == <<forceObject, archive, lastForceOp, popNodes, elemSpacing>>
spacingVars == <<mAverageNodeSpacing, lastComputedSpacing, lastSpacingCall>>
volumeVars == <<volNodes, volElements, volOutline, volMoves, firstVolume, lastVolumeCall>>
upwindVars == <<upNumGridPtsX, upNumGridPtsY, upY, upX, prev_x, next_x, prev_y, next_y, lastUpwindRead>>
membraneVars == <<memNodes, memElements, memSprings, memCalls>>
vars       == <<geomVars, spreadVars, stepVars, meshVars, gridVars, forceVars, spacingVars,
                volumeVars, upwindVars, membraneVars>>

\* the variables an operation of one part of the model leaves alone
otherThanGeom   == <<spreadVars, stepVars, meshVars, gridVars, forceVars, spacingVars,
                    volumeVars,
                    upwindVars,
                    membraneVars>>
otherThanSpread == <<geomVars, stepVars, meshVars, gridVars, forceVars, spacingVars,
                    volumeVars,
                    upwindVars,
                    membraneVars>>
otherThanStep   == <<geomVars, spreadVars, meshVars, gridVars, forceVars, spacingVars,
                    volumeVars,
                    upwindVars,
                    membraneVars>>
otherThanMesh   == <<geomVars, spreadVars, stepVars, gridVars, forceVars, spacingVars,
                    volumeVars,
                    upwindVars,
                    membraneVars>>
otherThanMeshAndGrid == <<geomVars, spreadVars, stepVars, forceVars, spacingVars,
                    volumeVars,
                    upwindVars,
                    membraneVars>>
otherThanForce  == <<geomVars, spreadVars, stepVars, meshVars, gridVars, spacingVars,
                    volumeVars,
                    upwindVars,
                    membraneVars>>
otherThanVolume == <<geomVars, spreadVars, stepVars, meshVars, gridVars, forceVars,
                     spacingVars,
                    upwindVars,
                    membraneVars>>
otherThanMeshAndSpacing == <<geomVars, spreadVars, stepVars, gridVars, forceVars,
                    volumeVars,
                    upwindVars,
                    membraneVars>>
otherThanUpwind == <<geomVars, spreadVars, stepVars, meshVars, gridVars, forceVars, spacingVars, volumeVars,
                    membraneVars>>
otherThanMembrane == <<geomVars, spreadVars, stepVars, meshVars, gridVars, forceVars, spacingVars, volumeVars, upwindVars>>

-----------------------------------------------------------------------------
(* Bounds of the model *)

\* half the number of lattice units in the unit length
HalfScale == 100
Scale == 2 * HalfScale

\* number of equally spaced sample coordinates the geometry kernel is tried on
VecSteps == 8

-----------------------------------------------------------------------------
(* Arithmetic helpers *)

Abs(x) == IF x < 0 THEN -x ELSE x

Sign(x) == IF x < 0 THEN -1 ELSE IF x > 0 THEN 1 ELSE 0

\* copysign(m, s): the magnitude of m with the sign of s
CopySign(m, s) == IF s < 0 THEN -Abs(m) ELSE Abs(m)

\* quotient rounded towards minus infinity, for any sign of the numerator
FloorDiv(a, b) == IF a >= 0 THEN a \div b ELSE -((-a + b - 1) \div b)

None == "none"

-----------------------------------------------------------------------------
(* Periodic geometry kernel: ImmersedBoundaryMesh::GetVectorFromAtoB *)

\* one component with the sign of the wrapped value taken from vector[dim]
\* instead of -vector[dim]
WrapComponentSameSign(d) ==
    IF Abs(d) > HalfScale THEN CopySign(Abs(d) - Scale, d) ELSE d

\* one component of the shortest displacement: if the points are more than 0.5
\* apart, copysign(fabs(v) - 1.0, -v)
WrapComponent(d) ==
    IF Abs(d) > HalfScale THEN CopySign(Abs(d) - Scale, -d) ELSE d

GetVectorFromAtoB(a, b) ==
    <<WrapComponent(b[1] - a[1]), WrapComponent(b[2] - a[2])>>

\* the sample coordinates: a coarse lattice and the neighbours of 0, 0.5 and 1
VecSamples ==
    {k * (Scale \div VecSteps) : k \in 0..(VecSteps - 1)}
        \cup {1, HalfScale - 1, HalfScale, HalfScale + 1, Scale - 1}

GeomInit ==
    /\ rLocation1 \in VecSamples \X VecSamples
    /\ rLocation2 \in VecSamples \X VecSamples
    /\ vectorAtoB = None

GeomIdle ==
    /\ rLocation1 = <<0, 0>>
    /\ rLocation2 = <<0, 0>>
    /\ vectorAtoB = None

\* the call vector_from(A, B)
CallGetVectorFromAtoB ==
    /\ vectorAtoB = None
    /\ vectorAtoB' = GetVectorFromAtoB(rLocation1, rLocation2)
    /\ UNCHANGED <<rLocation1, rLocation2>>
    /\ UNCHANGED otherThanGeom

-----------------------------------------------------------------------------
(* Force spreading: ImmersedBoundarySimulationModifier::PropagateForcesToFluidGrid *)

\* largest half grid size tried: the grid sizes are the even numbers 2..2*MaxHalfGrid
MaxHalfGrid == 4

GridSizes == {2 * h : h \in 1..MaxHalfGrid}

\* half the width in bits of the code's unsigned
HalfUIntBits == 16

\* arithmetic of Z[sqrt 2]
ZAdd(p, q) == <<p[1] + q[1], p[2] + q[2]>>
ZMul(p, q) == <<p[1] * q[1] + 2 * p[2] * q[2], p[1] * q[2] + p[2] * q[1]>>
ZScaleMagnitude(n, p) == <<Abs(n) * p[1], Abs(n) * p[2]>>
ZScale(n, p) == <<n * p[1], n * p[2]>>
ZZero == <<0, 0>>

\* 2*cos(k*pi/4)
TwoCos(k) ==
    CASE k % 8 = 0 -> <<2, 0>>
      [] k % 8 = 1 -> <<0, 1>>
      [] k % 8 = 2 -> <<0, 0>>
      [] k % 8 = 3 -> <<0, -1>>
      [] k % 8 = 4 -> <<-2, 0>>
      [] k % 8 = 5 -> <<0, -1>>
      [] k % 8 = 6 -> <<0, 0>>
      [] k % 8 = 7 -> <<0, 1>>

\* Delta1D(dist, spacing) = 0.25 * (1 + cos(pi * dist / (2 * spacing))) / spacing,
\* with dist given in half grid spacings, as 8 * spacing * Delta1D: 2 + 2*cos(dist*pi/4).
\* There is no cut-off at two grid spacings.
Delta1D(distHalf) == ZAdd(<<2, 0>>, TwoCos(distHalf))

\* (int + unsigned) % unsigned: the sum is taken as an unsigned, so that a negative
\* sum v is 2^32 + v (2^32 mod n being (2^16 mod n)^2 mod n)
UnsignedMod(v, n) ==
    IF v >= 0 THEN v % n
    ELSE ((((2 ^ HalfUIntBits) % n) * ((2 ^ HalfUIntBits) % n)) + (v % n)) % n

\* The two nested loops over the 4x4 stencil of one node, iteration k being
\* x_idx = k \div 4, y_idx = k % 4.  st carries first_idx_x, first_idx_y, dist_x,
\* the two force grids and the list of contributions made.
RECURSIVE SpreadStencil(_, _, _, _, _, _)
SpreadStencil(k, st, loc, force, nx, ny) ==
    IF k = 16 THEN st
    ELSE
        LET x_idx == k \div 4
            y_idx == k % 4
            \* start of an x_idx iteration: dist_x, then the wrap of first_idx_x
            dist_x == IF y_idx = 0 THEN Abs(2 * (st.first_idx_x + x_idx) - loc[1])
                      ELSE st.dist_x
            fx == IF y_idx = 0 /\ st.first_idx_x = -1 THEN st.first_idx_x + nx
                  ELSE st.first_idx_x
            \* body of the y_idx iteration: dist_y, then the wrap of first_idx_y
            dist_y == Abs(2 * (st.first_idx_y + y_idx) - loc[2])
            fy == IF st.first_idx_y = -1 THEN st.first_idx_y + ny ELSE st.first_idx_y
            w == ZMul(Delta1D(dist_x), Delta1D(dist_y))
            row == UnsignedMod(fy + y_idx, ny)
            col == UnsignedMod(fx + x_idx, nx)
        IN SpreadStencil(k + 1,
               [first_idx_x |-> fx, first_idx_y |-> fy, dist_x |-> dist_x,
                gridX |-> [st.gridX EXCEPT ![<<row, col>>] = ZAdd(@, ZScale(force[1], w))],
                gridY |-> [st.gridY EXCEPT ![<<row, col>>] = ZAdd(@, ZScale(force[2], w))],
                trace |-> Append(st.trace,
                            [x_idx |-> x_idx, y_idx |-> y_idx, row |-> row, col |-> col,
                             dist_x |-> dist_x, dist_y |-> dist_y, weight |-> w])],
               loc, force, nx, ny)

\* the loop over the nodes
RECURSIVE SpreadNodes(_, _, _, _, _, _, _)
SpreadNodes(i, nodes, gx, gy, tr, nx, ny) ==
    IF i > Len(nodes) THEN [gridX |-> gx, gridY |-> gy, trace |-> tr]
    ELSE
        LET loc == nodes[i].loc
            st == SpreadStencil(0,
                      [first_idx_x |-> (loc[1] \div 2) - 1,
                       first_idx_y |-> (loc[2] \div 2) - 1,
                       dist_x |-> 0, gridX |-> gx, gridY |-> gy, trace |-> <<>>],
                      loc, nodes[i].force, nx, ny)
        IN SpreadNodes(i + 1, nodes, st.gridX, st.gridY, Append(tr, st.trace), nx, ny)

PropagateForcesToFluidGrid(nodes, gx, gy, nx, ny) ==
    SpreadNodes(1, nodes, gx, gy, <<>>, nx, ny)

\* a force grid after SetupGrid and ClearForces
ZeroGrid(nx, ny) == [c \in (0..(ny - 1)) \X (0..(nx - 1)) |-> ZZero]

\* applied forces tried
AppliedForces == {<<1, 0>>, <<0, 1>>, <<2, -3>>}

\* node positions in half grid spacings: x = loc[1] * dx / 2, y = loc[2] * dy / 2;
\* the mesh holds one node, or two nodes at one location with opposite forces
SpreadInit ==
    /\ mNumGridPtsX \in GridSizes
    /\ mNumGridPtsY \in GridSizes
    /\ \E x \in 0..(2 * mNumGridPtsX - 1), y \in 0..(2 * mNumGridPtsY - 1),
          f \in AppliedForces :
            \/ spreadNodes = <<[loc |-> <<x, y>>, force |-> f]>>
            \/ spreadNodes = <<[loc |-> <<x, y>>, force |-> f],
                               [loc |-> <<x, y>>, force |-> <<-f[1], -f[2]>>]>>
    /\ mFluidForceGridX = ZeroGrid(mNumGridPtsX, mNumGridPtsY)
    /\ mFluidForceGridY = ZeroGrid(mNumGridPtsX, mNumGridPtsY)
    /\ spreadTrace = <<>>
    /\ spreadDone = FALSE

SpreadIdle ==
    /\ mNumGridPtsX = 2
    /\ mNumGridPtsY = 2
    /\ spreadNodes = <<>>
    /\ mFluidForceGridX = ZeroGrid(2, 2)
    /\ mFluidForceGridY = ZeroGrid(2, 2)
    /\ spreadTrace = <<>>
    /\ spreadDone = FALSE

CallPropagateForcesToFluidGrid ==
    /\ ~spreadDone
    /\ LET r == PropagateForcesToFluidGrid(spreadNodes, mFluidForceGridX,
                    mFluidForceGridY, mNumGridPtsX, mNumGridPtsY)
       IN /\ mFluidForceGridX' = r.gridX
          /\ mFluidForceGridY' = r.gridY
          /\ spreadTrace' = r.trace
    /\ spreadDone' = TRUE
    /\ UNCHANGED <<mNumGridPtsX, mNumGridPtsY, spreadNodes>>
    /\ UNCHANGED otherThanSpread

\* sum of a Z[sqrt 2] valued sequence field / grid
RECURSIVE SumWeights(_, _)
SumWeights(tr, i) ==
    IF i > Len(tr) THEN ZZero ELSE ZAdd(tr[i].weight, SumWeights(tr, i + 1))

RECURSIVE SumCells(_, _)
SumCells(g, cells) ==
    IF cells = {} THEN ZZero
    ELSE LET c == CHOOSE c \in cells : TRUE
         IN ZAdd(g[c], SumCells(g, cells \ {c}))

GridTotal(g) == SumCells(g, DOMAIN g)

-----------------------------------------------------------------------------
(* The per-step driver: ImmersedBoundarySimulationModifier *)

\* number of time steps run
MaxSteps == 4
\* largest neighbour update frequency configured
MaxFrequency == 3
\* largest number of registered force modules
MaxForces == 2

\* mNodeNeighbourUpdateFrequency(1u) in the constructor
DefaultUpdateFrequency == 1

ForceModules == {"membrane", "cellcell"}

\* BoxCollection::CalculateNodePairs: the pair list is determined by the node
\* locations it is computed from, and is represented by them
CalculateNodePairs(locations) == [from |-> locations]

\* mNodePairs before the first computation
NoPairs == [from |-> 0 - 1]

\* the points at which the pair list is computed: setup_solve, or step n
AtSetup == [setup |-> TRUE, n |-> 0]
AtStep(n) == [setup |-> FALSE, n |-> n]
Never == [setup |-> FALSE, n |-> 0 - 1]

\* the refresh test with the remainder compared to 1
RefreshDueOffByOne(n, frequency) == n % frequency = 1

\* UpdateAtEndOfTimeStep: GetTimeStepsElapsed() % mNodeNeighbourUpdateFrequency == 0
RefreshDue(n, frequency) == n % frequency = 0

\* the body with the spreading called before the force modules
UpdateFluidVelocityGridsSpreadFirst(phase) ==
    CASE phase = "clear" -> "spread"
      [] phase = "spread" -> "forces"
      [] phase = "forces" -> "solve"
      [] phase = "solve" -> "return"

\* UpdateFluidVelocityGrids: ClearForces, AddForceContributions,
\* PropagateForcesToFluidGrid, SolveNavierStokesSpectral; the call that follows `phase`
UpdateFluidVelocityGrids(phase) ==
    CASE phase = "clear" -> "forces"
      [] phase = "forces" -> "spread"
      [] phase = "spread" -> "solve"
      [] phase = "solve" -> "return"

\* what follows the return of UpdateFluidVelocityGrids: SetupSolve returns; within a
\* time step the node velocities are interpolated and the nodes advected
AfterPhase(phase, entry) ==
    LET n == UpdateFluidVelocityGrids(phase)
    IN IF n # "return" THEN n
       ELSE IF entry = "setup" THEN "idle" ELSE "interpolate"

\* the force modules are handed a pair list computed afresh from the current
\* node locations
HandPairsStale(pairs, locations) == CalculateNodePairs(locations)

\* AddForceContributions: (*iter)->AddForceContribution(mNodePairs)
HandPairs(pairs, locations) == pairs

\* the nodes of the step model, in half grid spacings of the modifier's grid, where
\* the advections so far have taken them
StepNodeLocations(locations) == <<<<locations % 4, 1>>, <<3, (locations + 1) % 4>>>>

\* what one call of a force module adds to the applied force of node n: it depends
\* on the module and on where the nodes are
ModuleForce(module, n, locations) ==
    IF module = "membrane" THEN <<1 + locations, 0 - n>> ELSE <<0 - 2, n + locations>>

\* the applied force of a node left as it is
ClearAppliedForceKeeps(applied) == applied

\* Node::ClearAppliedForce
ClearAppliedForce(applied) == <<0, 0>>

\* the applied forces after the modules i .. of the collection have been called
RECURSIVE AddModuleForces(_, _, _, _)
AddModuleForces(applied, collection, i, locations) ==
    IF i > Len(collection) THEN applied
    ELSE AddModuleForces(
            [n \in 1..Len(applied) |->
                <<applied[n][1] + ModuleForce(collection[i], n, locations)[1],
                  applied[n][2] + ModuleForce(collection[i], n, locations)[2]>>],
            collection, i + 1, locations)

\* the nodes as PropagateForcesToFluidGrid reads them
StepNodes(applied, locations) ==
    [n \in 1..Len(applied) |-> [loc |-> StepNodeLocations(locations)[n], force |-> applied[n]]]

\* the modifier as constructed; the simulation clock, which is not the modifier's,
\* shows 0 or 1 elapsed steps when the first step reads it
StepInit ==
    /\ pc = "new"
    /\ timeStepsElapsed \in {0, 1}
    /\ mNodeNeighbourUpdateFrequency = DefaultUpdateFrequency
    /\ mNodePairs = NoPairs
    /\ mForceCollection = <<>>
    /\ nodeLocations = 0
    /\ phaseLog = [entry |-> None, n |-> 0, c |-> 0, phases |-> <<>>]
    /\ pairsHanded = <<>>
    /\ refreshLog = [at |-> Never, pairs |-> NoPairs, lastDue |-> Never]
    /\ stepsRun = 0
    /\ appliedForces = <<<<0, 0>>, <<0, 0>>>>
    /\ mFluidForceGrids = [x |-> ZeroGrid(2, 2), y |-> ZeroGrid(2, 2)]

StepIdle ==
    /\ pc = "new"
    /\ timeStepsElapsed = 0
    /\ mNodeNeighbourUpdateFrequency = DefaultUpdateFrequency
    /\ mNodePairs = NoPairs
    /\ mForceCollection = <<>>
    /\ nodeLocations = 0
    /\ phaseLog = [entry |-> None, n |-> 0, c |-> 0, phases |-> <<>>]
    /\ pairsHanded = <<>>
    /\ refreshLog = [at |-> Never, pairs |-> NoPairs, lastDue |-> Never]
    /\ stepsRun = 0
    /\ appliedForces = <<<<0, 0>>, <<0, 0>>>>
    /\ mFluidForceGrids = [x |-> ZeroGrid(2, 2), y |-> ZeroGrid(2, 2)]

\* AddImmersedBoundaryForce
AddImmersedBoundaryForce ==
    /\ pc \in {"new", "idle"}
    /\ Len(mForceCollection) < MaxForces
    /\ \E f \in ForceModules : mForceCollection' = Append(mForceCollection, f)
    /\ UNCHANGED <<pc, timeStepsElapsed, mNodeNeighbourUpdateFrequency, mNodePairs,
                   nodeLocations, phaseLog, pairsHanded, refreshLog, stepsRun>>
    /\ UNCHANGED stepForceVars
    /\ UNCHANGED otherThanStep

\* SetNodeNeighbourUpdateFrequency: assert(newFrequency > 0)
SetNodeNeighbourUpdateFrequency ==
    /\ pc \in {"new", "idle"}
    /\ \E newFrequency \in 1..MaxFrequency :
          /\ newFrequency # mNodeNeighbourUpdateFrequency
          /\ mNodeNeighbourUpdateFrequency' = newFrequency
    /\ UNCHANGED <<pc, timeStepsElapsed, mNodePairs, mForceCollection, nodeLocations,
                   phaseLog, pairsHanded, refreshLog, stepsRun>>
    /\ UNCHANGED stepForceVars
    /\ UNCHANGED otherThanStep

\* SetupSolve, up to the call of UpdateFluidVelocityGrids:
\* SetupConstantMemberVariables builds the box collection and the first pair list
SetupSolve ==
    /\ pc = "new"
    /\ mNodePairs' = CalculateNodePairs(nodeLocations)
    /\ phaseLog' = [entry |-> "setup", n |-> 0, c |-> mNodeNeighbourUpdateFrequency,
                    phases |-> <<"refresh">>]
    /\ refreshLog' = [at |-> AtSetup, pairs |-> CalculateNodePairs(nodeLocations),
                      lastDue |-> AtSetup]
    /\ pairsHanded' = <<>>
    /\ pc' = "clear"
    /\ UNCHANGED <<timeStepsElapsed, mNodeNeighbourUpdateFrequency, mForceCollection,
                   nodeLocations, stepsRun>>
    /\ UNCHANGED stepForceVars
    /\ UNCHANGED otherThanStep

\* UpdateAtEndOfTimeStep, up to the call of UpdateFluidVelocityGrids, in a step
\* in which the pair list is recomputed
UpdateAtEndOfTimeStepRefresh ==
    /\ pc = "idle"
    /\ stepsRun < MaxSteps
    /\ RefreshDue(timeStepsElapsed, mNodeNeighbourUpdateFrequency)
    /\ mNodePairs' = CalculateNodePairs(nodeLocations)
    /\ phaseLog' = [entry |-> "step", n |-> timeStepsElapsed,
                    c |-> mNodeNeighbourUpdateFrequency, phases |-> <<"refresh">>]
    /\ refreshLog' = [at |-> AtStep(timeStepsElapsed),
                      pairs |-> CalculateNodePairs(nodeLocations),
                      lastDue |-> IF timeStepsElapsed % mNodeNeighbourUpdateFrequency = 0
                                  THEN AtStep(timeStepsElapsed) ELSE refreshLog.lastDue]
    /\ pairsHanded' = <<>>
    /\ pc' = "clear"
    /\ UNCHANGED <<timeStepsElapsed, mNodeNeighbourUpdateFrequency, mForceCollection,
                   nodeLocations, stepsRun>>
    /\ UNCHANGED stepForceVars
    /\ UNCHANGED otherThanStep

\* UpdateAtEndOfTimeStep in a step in which the pair list is kept
UpdateAtEndOfTimeStepKeep ==
    /\ pc = "idle"
    /\ stepsRun < MaxSteps
    /\ ~RefreshDue(timeStepsElapsed, mNodeNeighbourUpdateFrequency)
    /\ phaseLog' = [entry |-> "step", n |-> timeStepsElapsed,
                    c |-> mNodeNeighbourUpdateFrequency, phases |-> <<>>]
    /\ refreshLog' = [refreshLog EXCEPT !.lastDue =
                        IF timeStepsElapsed % mNodeNeighbourUpdateFrequency = 0
                        THEN AtStep(timeStepsElapsed) ELSE @]
    /\ pairsHanded' = <<>>
    /\ pc' = "clear"
    /\ UNCHANGED <<timeStepsElapsed, mNodeNeighbourUpdateFrequency, mNodePairs,
                   mForceCollection, nodeLocations, stepsRun>>
    /\ UNCHANGED stepForceVars
    /\ UNCHANGED otherThanStep

Logged(phase) == [phaseLog EXCEPT !.phases = Append(@, phase)]

ClearForces ==
    /\ pc = "clear"
    /\ phaseLog' = Logged("clear")
    /\ pc' = AfterPhase("clear", phaseLog.entry)
    /\ UNCHANGED <<timeStepsElapsed, mNodeNeighbourUpdateFrequency, mNodePairs,
                   mForceCollection, nodeLocations, pairsHanded, refreshLog, stepsRun>>
    /\ appliedForces' = [n \in 1..Len(appliedForces) |-> ClearAppliedForce(appliedForces[n])]
    /\ mFluidForceGrids' = [x |-> ZeroGrid(mNumGridPtsX, mNumGridPtsY),
                            y |-> ZeroGrid(mNumGridPtsX, mNumGridPtsY)]
    /\ UNCHANGED otherThanStep

\* the loop over mForceCollection: every module is called once, in order
AddForceContributions ==
    /\ pc = "forces"
    /\ phaseLog' = Logged("forces")
    /\ pairsHanded' = [i \in 1..Len(mForceCollection) |->
                          [module |-> mForceCollection[i],
                           pairs |-> HandPairs(mNodePairs, nodeLocations)]]
    /\ pc' = AfterPhase("forces", phaseLog.entry)
    /\ UNCHANGED <<timeStepsElapsed, mNodeNeighbourUpdateFrequency, mNodePairs,
                   mForceCollection, nodeLocations, refreshLog, stepsRun>>
    /\ appliedForces' = AddModuleForces(appliedForces, mForceCollection, 1, nodeLocations)
    /\ UNCHANGED mFluidForceGrids
    /\ UNCHANGED otherThanStep

SpreadForces ==
    /\ pc = "spread"
    /\ phaseLog' = Logged("spread")
    /\ pc' = AfterPhase("spread", phaseLog.entry)
    /\ UNCHANGED <<timeStepsElapsed, mNodeNeighbourUpdateFrequency, mNodePairs,
                   mForceCollection, nodeLocations, pairsHanded, refreshLog, stepsRun>>
    /\ LET spread == PropagateForcesToFluidGrid(
                         StepNodes(appliedForces, nodeLocations), mFluidForceGrids.x,
                         mFluidForceGrids.y, mNumGridPtsX, mNumGridPtsY)
       IN mFluidForceGrids' = [x |-> spread.gridX, y |-> spread.gridY]
    /\ UNCHANGED appliedForces
    /\ UNCHANGED otherThanStep

SolveNavierStokesSpectral ==
    /\ pc = "solve"
    /\ phaseLog' = Logged("solve")
    /\ pc' = AfterPhase("solve", phaseLog.entry)
    /\ UNCHANGED <<timeStepsElapsed, mNodeNeighbourUpdateFrequency, mNodePairs,
                   mForceCollection, nodeLocations, pairsHanded, refreshLog, stepsRun>>
    /\ UNCHANGED stepForceVars
    /\ UNCHANGED otherThanStep

\* interpolation of the node velocities from the new velocity grids
InterpolateVelocities ==
    /\ pc = "interpolate"
    /\ phaseLog' = Logged("interpolate")
    /\ pc' = "advect"
    /\ UNCHANGED <<timeStepsElapsed, mNodeNeighbourUpdateFrequency, mNodePairs,
                   mForceCollection, nodeLocations, pairsHanded, refreshLog, stepsRun>>
    /\ UNCHANGED stepForceVars
    /\ UNCHANGED otherThanStep

\* advection of the nodes, which ends the step: the nodes take new locations
\* (numbered by the advections so far) and the time moves on
AdvectNodes ==
    /\ pc = "advect"
    /\ phaseLog' = Logged("advect")
    /\ nodeLocations' = nodeLocations + 1
    /\ timeStepsElapsed' = timeStepsElapsed + 1
    /\ stepsRun' = stepsRun + 1
    /\ pc' = "idle"
    /\ UNCHANGED <<mNodeNeighbourUpdateFrequency, mNodePairs, mForceCollection,
                   pairsHanded, refreshLog>>
    /\ UNCHANGED stepForceVars
    /\ UNCHANGED otherThanStep

-----------------------------------------------------------------------------
(* The mesh: ImmersedBoundaryMesh *)

\* UINT_MAX, written -1: UINT_MAX + 1 wraps to 0, and no index equals it
UIntMax == 0 - 1

\* DOUBLE_UNSET (DBL_MAX), the value of a division spacing that was not set: a
\* value above every length of the unit square
DoubleUnset == Scale * Scale

\* the coordinate NaN, which 0/0 evaluates to
NotANumber == 0 - Scale * Scale
IsNaN(loc) == loc[1] = NotANumber \/ loc[2] = NotANumber

\* the null fluid source pointer of an element
NullSource == 0 - 1

\* largest integer whose square is at most n
RECURSIVE ISqrtBetween(_, _, _)
ISqrtBetween(n, lo, hi) ==
    IF lo >= hi THEN lo
    ELSE LET mid == (lo + hi + 1) \div 2
         IN IF mid * mid <= n THEN ISqrtBetween(n, mid, hi)
            ELSE ISqrtBetween(n, lo, mid - 1)

ISqrt(n) == ISqrtBetween(n, 0, 2 * Scale)

norm_2(v) == ISqrt(v[1] * v[1] + v[2] * v[2])

inner_prod(u, v) == u[1] * v[1] + u[2] * v[2]

\* a quotient with a denominator of either sign
Quotient(a, b) == IF b > 0 THEN FloorDiv(a, b) ELSE FloorDiv(-a, -b)

\* mNodes[g] and mElements[e], indices counting from 0 as in the code
NodeAt(nodes, g) == nodes[g + 1]
ElementAt(elements, e) == elements[e + 1]
GetNumNodes(elem) == Len(elem.nodes)
GetNodeGlobalIndex(elem, i) == elem.nodes[i + 1]
GetNodeLocation(nodes, elem, i) == nodes[elem.nodes[i + 1] + 1].loc

\* MutableElement::GetNodeLocalIndex(globalIndex): the position in the element of
\* the node with that global index, UINT_MAX if the element has no such node
GetNodeLocalIndex(elem, globalIndex) ==
    LET hits == {i \in 0..(GetNumNodes(elem) - 1) : GetNodeGlobalIndex(elem, i) = globalIndex}
    IN IF hits = {} THEN UIntMax ELSE CHOOSE i \in hits : \A j \in hits : j <= i

\* some node of the element has a NaN coordinate
HasNaN(nodes, elem) == \E i \in 1..Len(elem.nodes) : IsNaN(nodes[elem.nodes[i] + 1].loc)

\* c < 0 ? c + 1.0 : fmod(c, 1.0)
Canonical(c) == IF c < 0 THEN c + Scale ELSE c % Scale

\* the shoelace sums of GetCentroidOfElement over the vertices from local_index on:
\* the sum of the signed area terms and the two weighted sums
RECURSIVE CentroidSums(_, _, _, _)
CentroidSums(nodes, elem, local_index, pos_1) ==
    IF local_index = GetNumNodes(elem) THEN <<0, 0, 0>>
    ELSE
        LET first == GetNodeLocation(nodes, elem, 0)
            pos_2 == GetVectorFromAtoB(first,
                        GetNodeLocation(nodes, elem, (local_index + 1) % GetNumNodes(elem)))
            term == pos_1[1] * pos_2[2] - pos_1[2] * pos_2[1]
            rest == CentroidSums(nodes, elem, local_index + 1, pos_2)
        IN <<term + rest[1],
             (pos_1[1] + pos_2[1]) * term + rest[2],
             (pos_1[2] + pos_2[2]) * term + rest[3]>>

\* GetCentroidOfElement: (0,0) for the membrane; else node 0 plus the centroid
\* relative to node 0, centroid_x / (6 * signed_area), mapped into [0,1); NaN
\* when a node of the element is at NaN
GetCentroidOfElement(nodes, elements, membraneIndex, index) ==
    IF index = membraneIndex THEN <<0, 0>>
    ELSE IF HasNaN(nodes, ElementAt(elements, index)) THEN <<NotANumber, NotANumber>>
    ELSE
        LET elem == ElementAt(elements, index)
            sums == CentroidSums(nodes, elem, 0, <<0, 0>>)
            first == GetNodeLocation(nodes, elem, 0)
        IN <<Canonical(first[1] + Quotient(sums[2], 3 * sums[1])),
             Canonical(first[2] + Quotient(sums[3], 3 * sums[1]))>>

\* DivideElementAlongGivenAxis: is the node on the left of the axis
IsNodeOnLeft(nodes, elem, i, centroid, perp_axis) ==
    inner_prod(GetVectorFromAtoB(GetNodeLocation(nodes, elem, i), centroid), perp_axis) >= 0

\* the positions i, in increasing order, of the nodes that lie on the other side
\* of the axis than their next neighbour
RECURSIVE IntersectingNodes(_, _, _, _, _)
IntersectingNodes(nodes, elem, i, centroid, perp_axis) ==
    IF i = GetNumNodes(elem) THEN <<>>
    ELSE
        LET rest == IntersectingNodes(nodes, elem, i + 1, centroid, perp_axis)
        IN IF IsNodeOnLeft(nodes, elem, i, centroid, perp_axis)
                # IsNodeOnLeft(nodes, elem, (i + 1) % GetNumNodes(elem), centroid, perp_axis)
           THEN <<i>> \o rest
           ELSE rest

\* axisOfDivision / norm_2(axisOfDivision), in units of 1/Scale
UnitVector(axis) ==
    LET n == ISqrt(inner_prod(axis, axis) * Scale * Scale)
    IN <<Quotient(axis[1] * Scale * Scale, n), Quotient(axis[2] * Scale * Scale, n)>>

\* inner_prod(centroid_to_i, unit_perp)
PerpendicularDist(centroid, loc, unit_perp) ==
    Quotient(inner_prod(GetVectorFromAtoB(centroid, loc), unit_perp), Scale)

\* new_location -= unit_perp * copysign(fabs(perpendicular_dist) - half_spacing,
\*                                      perpendicular_dist)
SnappedLocation(loc, unit_perp, perpendicular_dist, half_spacing) ==
    LET by == CopySign(Abs(perpendicular_dist) - half_spacing, perpendicular_dist)
    IN <<loc[1] - Quotient(unit_perp[1] * by, Scale),
         loc[2] - Quotient(unit_perp[2] * by, Scale)>>

\* One of the four loops `for (i = from; i != stop;)` of DivideElement, stepping by
\* `step` around the ring: the first node at perpendicular distance at least
\* half_spacing is moved onto the offset plane.  GetNode(i) with i no position of
\* the element fails the bounds assertion ("abort"); a loop that has gone once
\* around the ring without reaching `stop` never ends ("hang").
RECURSIVE WalkToFrontier(_, _, _, _, _, _, _, _, _)
WalkToFrontier(nodes, elem, i, stop, step, centroid, unit_perp, half_spacing, left) ==
    IF i = stop THEN [status |-> "none", at |-> i, nodes |-> nodes]
    ELSE IF i < 0 \/ i >= GetNumNodes(elem) THEN [status |-> "abort", at |-> i, nodes |-> nodes]
    ELSE
        LET g == GetNodeGlobalIndex(elem, i)
            loc == NodeAt(nodes, g).loc
            perpendicular_dist == PerpendicularDist(centroid, loc, unit_perp)
        IN IF Abs(perpendicular_dist) >= half_spacing
           THEN [status |-> "found", at |-> i,
                 nodes |-> [nodes EXCEPT ![g + 1].loc =
                              SnappedLocation(loc, unit_perp, perpendicular_dist, half_spacing)]]
           ELSE IF left = 0 THEN [status |-> "hang", at |-> i, nodes |-> nodes]
           ELSE WalkToFrontier(nodes, elem, (i + step) % GetNumNodes(elem), stop, step,
                               centroid, unit_perp, half_spacing, left - 1)

\* the locations of the nodes from position `from` to position `to` around the ring
RECURSIVE LocationStencil(_, _, _, _)
LocationStencil(nodes, elem, node_idx, to) ==
    IF node_idx = (to + 1) % GetNumNodes(elem) THEN <<>>
    ELSE <<GetNodeLocation(nodes, elem, node_idx)>>
            \o LocationStencil(nodes, elem, (node_idx + 1) % GetNumNodes(elem), to)

\* cumulative distances around a closed stencil (its first location added at the end)
RECURSIVE CumulativeDistances(_, _)
CumulativeDistances(stencil, upto) ==
    IF upto = 1 THEN <<0>>
    ELSE LET before == CumulativeDistances(stencil, upto - 1)
         IN Append(before, before[upto - 1]
                    + norm_2(GetVectorFromAtoB(stencil[upto - 1], stencil[upto])))

\* the loop placing num_nodes locations at equal arc length around a stencil,
\* last_idx_used being kept from one node to the next; on a segment of length
\* zero the interpolant is 0/0 and the location NaN
RECURSIVE Resample(_, _, _, _, _, _)
Resample(stencil, cumulative, target_spacing, node_idx, num_nodes, last_idx_used) ==
    IF node_idx = num_nodes THEN <<>>
    ELSE
        LET location_along_arc == node_idx * target_spacing
        IN IF location_along_arc > cumulative[last_idx_used + 2]
           THEN Resample(stencil, cumulative, target_spacing, node_idx, num_nodes,
                         last_idx_used + 1)
           ELSE
               LET segment == cumulative[last_idx_used + 2] - cumulative[last_idx_used + 1]
                   along == location_along_arc - cumulative[last_idx_used + 1]
                   this_to_next == GetVectorFromAtoB(stencil[last_idx_used + 1],
                                                     stencil[last_idx_used + 2])
                   new_location ==
                       IF segment = 0 THEN <<NotANumber, NotANumber>>
                       ELSE <<stencil[last_idx_used + 1][1]
                                + Quotient(along * this_to_next[1], segment),
                              stencil[last_idx_used + 1][2]
                                + Quotient(along * this_to_next[2], segment)>>
               IN <<new_location>>
                    \o Resample(stencil, cumulative, target_spacing, node_idx + 1,
                                num_nodes, last_idx_used)

\* the locations of a daughter: the closed stencil resampled to num_nodes locations
DaughterLocations(stencil, num_nodes) ==
    LET closed == Append(stencil, stencil[1])
        cumulative == CumulativeDistances(closed, Len(closed))
        target_spacing == cumulative[Len(cumulative)] \div num_nodes
    IN Resample(closed, cumulative, target_spacing, 0, num_nodes, 0)

\* the signed area of GetCentroidOfElement is zero: its assertion fails
SignedAreaIsZero(nodes, elements, membraneIndex, index) ==
    /\ index # membraneIndex
    /\ ~HasNaN(nodes, ElementAt(elements, index))
    /\ CentroidSums(nodes, ElementAt(elements, index), 0, <<0, 0>>)[1] = 0

\* The four loops of DivideElement that find start_a, end_a, start_b and end_b, run
\* one after the other on the nodes as the loops before left them.  status is
\* "found" when every loop found its node, "none" when some loop found none (all
\* four loops have run by then), "abort" or "hang" when a loop did not end.
FindFrontiers(nodes, elem, nodeAIndex, nodeBIndex, centroid, unit_perp, half_spacing) ==
    LET num_nodes == GetNumNodes(elem)
        walk_1 == WalkToFrontier(nodes, elem, (nodeAIndex + 1) % num_nodes, nodeBIndex, 1,
                                 centroid, unit_perp, half_spacing, num_nodes)
        start_a == IF walk_1.status = "found" THEN walk_1.at ELSE (nodeAIndex + 1) % num_nodes
        walk_2 == WalkToFrontier(walk_1.nodes, elem, nodeBIndex, start_a, num_nodes - 1,
                                 centroid, unit_perp, half_spacing, num_nodes)
        walk_3 == WalkToFrontier(walk_2.nodes, elem, (nodeBIndex + 1) % num_nodes, nodeAIndex, 1,
                                 centroid, unit_perp, half_spacing, num_nodes)
        start_b == IF walk_3.status = "found" THEN walk_3.at ELSE (nodeBIndex + 1) % num_nodes
        walk_4 == WalkToFrontier(walk_3.nodes, elem, nodeAIndex, start_b, num_nodes - 1,
                                 centroid, unit_perp, half_spacing, num_nodes)
        stopped(w) == w.status \in {"abort", "hang"}
        ends(w) == [status |-> w.status, nodes |-> w.nodes,
                    start_a |-> 0, end_a |-> 0, start_b |-> 0, end_b |-> 0]
    IN IF stopped(walk_1) THEN ends(walk_1)
       ELSE IF stopped(walk_2) THEN ends(walk_2)
       ELSE IF stopped(walk_3) THEN ends(walk_3)
       ELSE IF stopped(walk_4) THEN ends(walk_4)
       ELSE [status |-> IF \E w \in {walk_1, walk_2, walk_3, walk_4} : w.status = "none"
                        THEN "none" ELSE "found",
             nodes |-> walk_4.nodes,
             start_a |-> start_a, end_a |-> walk_2.at,
             start_b |-> start_b, end_b |-> walk_4.at]

\* the nodes with the locations of the element's nodes 0 .. num_nodes-1 replaced
RECURSIVE MoveNodes(_, _, _, _)
MoveNodes(nodes, elem, locations, node_idx) ==
    IF node_idx = Len(locations) THEN nodes
    ELSE MoveNodes([nodes EXCEPT ![GetNodeGlobalIndex(elem, node_idx) + 1].loc =
                                    locations[node_idx + 1]],
                   elem, locations, node_idx + 1)

\* what a call leaves behind: how it ended, the value it returned, and the mesh
Outcome(result, ret, nodes, elements, sources) ==
    [result |-> result, ret |-> ret, nodes |-> nodes, elements |-> elements,
     sources |-> sources]

\* the new nodes numbered from 0, as if the mesh held no node yet
NewNodeIndicesFromZero(old_count, num_nodes) == [node_idx \in 1..num_nodes |-> node_idx - 1]

\* new_node_idx = this->mNodes.size() for each of the num_nodes nodes pushed in turn
NewNodeIndices(old_count, num_nodes) ==
    [node_idx \in 1..num_nodes |-> old_count + node_idx - 1]

\* a new element that is never registered with its nodes
RegisterWithNodesNever(containing, new_elem_idx) == containing

\* RegisterWithNodes() of the new element, for one of its nodes: AddElement(index)
\* on the set of containing elements of the node
RegisterWithNodes(containing, new_elem_idx) == containing \cup {new_elem_idx}

\* DivideElement, from the resampling of the two daughters to the return
DivideAtFrontiers(nodes, elements, sources, membraneIndex, index, found) ==
    LET elem == ElementAt(elements, index)
        num_nodes == GetNumNodes(elem)
        daughter_a_location_stencil ==
            LocationStencil(found.nodes, elem, found.start_a, found.end_a)
        daughter_b_location_stencil ==
            LocationStencil(found.nodes, elem, found.start_b, found.end_b)
        moved == MoveNodes(found.nodes, elem,
                           DaughterLocations(daughter_a_location_stencil, num_nodes), 0)
        locations_b == DaughterLocations(daughter_b_location_stencil, num_nodes)
        new_elem_idx == Len(elements)
        new_nodes == [node_idx \in 1..num_nodes |->
                        [loc |-> locations_b[node_idx],
                         elems |-> RegisterWithNodes({}, new_elem_idx)]]
        nodes_after == moved \o new_nodes
        new_element == [nodes |-> NewNodeIndices(Len(nodes), num_nodes),
                        corners |-> elem.corners,
                        source |-> NullSource]
        elements_pushed == Append(elements, new_element)
    IN IF Len(daughter_a_location_stencil) <= 1 \/ Len(daughter_b_location_stencil) <= 1
       THEN Outcome("abort", UIntMax, found.nodes, elements, sources)
       ELSE IF elem.source = NullSource
                  \/ SignedAreaIsZero(nodes_after, elements_pushed, membraneIndex, index)
       THEN Outcome("abort", UIntMax, nodes_after, elements_pushed, sources)
       ELSE
           LET sources_moved ==
                   [sources EXCEPT ![elem.source + 1].loc =
                       GetCentroidOfElement(nodes_after, elements_pushed, membraneIndex, index)]
           IN IF SignedAreaIsZero(nodes_after, elements_pushed, membraneIndex, new_elem_idx)
              THEN Outcome("abort", UIntMax, nodes_after, elements_pushed, sources_moved)
              ELSE Outcome("ok", new_elem_idx, nodes_after,
                           [elements_pushed EXCEPT ![new_elem_idx + 1].source = Len(sources)],
                           Append(sources_moved,
                                  [index |-> new_elem_idx,
                                   loc |-> GetCentroidOfElement(nodes_after, elements_pushed,
                                                                membraneIndex, new_elem_idx),
                                   elem |-> new_elem_idx,
                                   strength |-> 0]))

\* DivideElement(pElement, nodeAIndex, nodeBIndex, centroid, axisOfDivision)
DivideElement(nodes, elements, sources, membraneIndex, spacing, index, nodeAIndex, nodeBIndex, centroid, axisOfDivision) ==
    IF spacing = DoubleUnset THEN Outcome("unset", UIntMax, nodes, elements, sources)
    ELSE
        LET unit_axis == UnitVector(axisOfDivision)
            unit_perp == <<-unit_axis[2], unit_axis[1]>>
            found == FindFrontiers(nodes, ElementAt(elements, index), nodeAIndex, nodeBIndex,
                                   centroid, unit_perp, spacing \div 2)
        IN IF found.status \in {"abort", "hang"}
           THEN Outcome("abort", UIntMax, found.nodes, elements, sources)
           ELSE IF found.status = "none"
           THEN Outcome("spacing", UIntMax, found.nodes, elements, sources)
           ELSE DivideAtFrontiers(found.nodes, elements, sources, membraneIndex, index, found)

\* the division with the test of the crossings as `size() < 2`: an axis that
\* crosses more than two edges is divided at the first two
DivideElementAlongGivenAxisAtLeastTwo(nodes, elements, sources, membraneIndex, spacing, index, axisOfDivision) ==
    IF SignedAreaIsZero(nodes, elements, membraneIndex, index)
    THEN Outcome("abort", UIntMax, nodes, elements, sources)
    ELSE
        LET elem == ElementAt(elements, index)
            centroid == GetCentroidOfElement(nodes, elements, membraneIndex, index)
            perp_axis == <<-axisOfDivision[2], axisOfDivision[1]>>
            intersecting_nodes == IntersectingNodes(nodes, elem, 0, centroid, perp_axis)
        IN IF Len(intersecting_nodes) < 2
           THEN Outcome("geometry", UIntMax, nodes, elements, sources)
           ELSE DivideElement(nodes, elements, sources, membraneIndex, spacing, index,
                              GetNodeLocalIndex(elem, intersecting_nodes[1]),
                              GetNodeLocalIndex(elem, intersecting_nodes[2]),
                              centroid, axisOfDivision)

\* DivideElementAlongGivenAxis(pElement, axisOfDivision)
DivideElementAlongGivenAxis(nodes, elements, sources, membraneIndex, spacing, index, axisOfDivision) ==
    IF SignedAreaIsZero(nodes, elements, membraneIndex, index)
    THEN Outcome("abort", UIntMax, nodes, elements, sources)
    ELSE
        LET elem == ElementAt(elements, index)
            centroid == GetCentroidOfElement(nodes, elements, membraneIndex, index)
            perp_axis == <<-axisOfDivision[2], axisOfDivision[1]>>
            intersecting_nodes == IntersectingNodes(nodes, elem, 0, centroid, perp_axis)
        IN IF Len(intersecting_nodes) # 2
           THEN Outcome("geometry", UIntMax, nodes, elements, sources)
           ELSE DivideElement(nodes, elements, sources, membraneIndex, spacing, index,
                              GetNodeLocalIndex(elem, intersecting_nodes[1]),
                              GetNodeLocalIndex(elem, intersecting_nodes[2]),
                              centroid, axisOfDivision)

-----------------------------------------------------------------------------
(* The meshes the division is run on, and the operations of the mesh *)

\* most elements a mesh grows to, most division calls made on it, and most node
\* advections applied to it
MaxElements == 3
MaxDivisionCalls == 2
MaxAdvections == 1

\* outlines, counter-clockwise from their first node, relative to a corner
Rectangle == <<<<0, 0>>, <<20, 0>>, <<40, 0>>, <<60, 0>>, <<80, 0>>, <<80, 20>>,
               <<80, 40>>, <<60, 40>>, <<40, 40>>, <<20, 40>>, <<0, 40>>, <<0, 20>>>>
Horseshoe == <<<<0, 0>>, <<60, 0>>, <<60, 60>>, <<40, 60>>, <<40, 20>>, <<20, 20>>,
               <<20, 60>>, <<0, 60>>>>
Triangle == <<<<0, 0>>, <<40, 0>>, <<20, 40>>>>
MembraneLine == <<<<0, 10>>, <<50, 10>>, <<100, 10>>, <<150, 10>>>>

\* an outline placed with its corner at `at`, every location in [0,1)
Placed(outline, at) ==
    [i \in 1..Len(outline) |-> <<(outline[i][1] + at[1]) % Scale,
                                 (outline[i][2] + at[2]) % Scale>>]

\* node numbers first, first+1, ... in ring order, or the same ring started one later
Consecutive(first, n) == [i \in 1..n |-> first + i - 1]
Rotated(first, n) == [i \in 1..n |-> first + (i % n)]

\* the node locations and element node lists handed to the constructor or read
\* from a mesh reader, with the index of the membrane element (UINT_MAX: none) and
\* the nodes pushed to rGetCornerNodes() of each element before the construction
MeshInputs ==
    { [locations |-> Placed(Rectangle, <<60, 70>>),
       elements |-> <<Consecutive(0, 12)>>, membrane |-> UIntMax,
       corners |-> <<<<>>>>],
      [locations |-> Placed(Rectangle, <<150, 180>>),
       elements |-> <<Consecutive(0, 12)>>, membrane |-> UIntMax,
       corners |-> <<<<0, 4, 6, 10>>>>],
      [locations |-> Placed(Rectangle, <<60, 70>>),
       elements |-> <<Rotated(0, 12)>>, membrane |-> UIntMax,
       corners |-> <<<<>>>>],
      [locations |-> Placed(Horseshoe, <<50, 50>>),
       elements |-> <<Consecutive(0, 8)>>, membrane |-> UIntMax,
       corners |-> <<<<>>>>],
      [locations |-> Placed(Triangle, <<80, 80>>),
       elements |-> <<Consecutive(0, 3)>>, membrane |-> UIntMax,
       corners |-> <<<<>>>>],
      [locations |-> Placed(Rectangle, <<20, 20>>) \o Placed(Triangle, <<120, 120>>),
       elements |-> <<Consecutive(0, 12), Consecutive(12, 3)>>, membrane |-> UIntMax,
       corners |-> <<<<>>, <<>>>>],
      [locations |-> MembraneLine \o Placed(Rectangle, <<60, 70>>),
       elements |-> <<Consecutive(0, 4), Consecutive(4, 12)>>, membrane |-> 0,
       corners |-> <<<<>>, <<>>>>] }

\* directions of division, division spacings and node displacements tried
Axes == {<<1, 0>>, <<0, 1>>, <<1, 1>>}
Spacings == {8, 60}
Displacements == {<<30, 170>>}

\* nodes and elements as both constructions leave them: every element registered
\* with its nodes, no element with a fluid source yet
NodesOf(input) ==
    [g \in 1..Len(input.locations) |->
        [loc |-> input.locations[g],
         elems |-> {e \in 0..(Len(input.elements) - 1) :
                        \E i \in 1..Len(input.elements[e + 1]) :
                            input.elements[e + 1][i] = g - 1}]]

ElementsOf(input) ==
    [e \in 1..Len(input.elements) |->
        [nodes |-> input.elements[e], corners |-> input.corners[e], source |-> NullSource]]

\* the constructor's loop that gives every element but the membrane a fluid source
\* at its centroid, with strength zero
RECURSIVE PositionFluidSources(_, _, _, _, _)
PositionFluidSources(nodes, elements, sources, membraneIndex, elem_it) ==
    IF elem_it = Len(elements) THEN [elements |-> elements, sources |-> sources]
    ELSE IF elem_it = membraneIndex
    THEN PositionFluidSources(nodes, elements, sources, membraneIndex, elem_it + 1)
    ELSE PositionFluidSources(
            nodes,
            [elements EXCEPT ![elem_it + 1].source = Len(sources)],
            Append(sources, [index |-> Len(sources),
                             loc |-> GetCentroidOfElement(nodes, elements, membraneIndex, elem_it),
                             elem |-> elem_it,
                             strength |-> 0]),
            membraneIndex, elem_it + 1)

NoCall == [op |-> "none", index |-> UIntMax, axis |-> <<0, 0>>, result |-> "none",
           ret |-> UIntMax, nodes |-> <<>>, elements |-> <<>>, sources |-> <<>>]

\* ImmersedBoundaryMesh(nodes, elements, numGridPtsX, numGridPtsY, membraneIndex)
ConstructFromLists(input) ==
    LET positioned == PositionFluidSources(NodesOf(input), ElementsOf(input), <<>>,
                                           input.membrane, 0)
    IN /\ mNodes = NodesOf(input)
       /\ mElements = positioned.elements
       /\ mElementFluidSources = positioned.sources
       /\ mMembraneIndex = input.membrane
       /\ mElementDivisionSpacing = DoubleUnset
       /\ builtFrom = "lists"

\* ImmersedBoundaryMesh() followed by ConstructFromMeshReader: the default
\* constructor gives mElementDivisionSpacing no value and the reader assigns none,
\* so its value is indeterminate
ConstructFromMeshReader(input) ==
    /\ mNodes = NodesOf(input)
    /\ mElements = ElementsOf(input)
    /\ mElementFluidSources = <<>>
    /\ mMembraneIndex = input.membrane
    /\ mElementDivisionSpacing \in {DoubleUnset} \cup Spacings
    /\ builtFrom = "reader"

MeshInit ==
    /\ \E input \in MeshInputs : ConstructFromLists(input) \/ ConstructFromMeshReader(input)
    /\ spacingEverSet = FALSE
    /\ lastCall = NoCall
    /\ halted = FALSE
    /\ advections = 0
    /\ divisionCalls = 0
    /\ everFailed = FALSE

MeshIdle ==
    /\ mNodes = <<>>
    /\ mElements = <<>>
    /\ mElementFluidSources = <<>>
    /\ mMembraneIndex = UIntMax
    /\ mElementDivisionSpacing = DoubleUnset
    /\ builtFrom = None
    /\ spacingEverSet = FALSE
    /\ lastCall = NoCall
    /\ halted = FALSE
    /\ advections = 0
    /\ divisionCalls = 0
    /\ everFailed = FALSE

\* SetElementDivisionSpacing(elementDivisionSpacing)
SetElementDivisionSpacing ==
    /\ ~halted
    /\ \E elementDivisionSpacing \in Spacings :
          mElementDivisionSpacing' = elementDivisionSpacing
    /\ spacingEverSet' = TRUE
    /\ lastCall' = [NoCall EXCEPT !.op = "setSpacing"]
    /\ UNCHANGED <<mNodes, mElements, mElementFluidSources, mMembraneIndex, builtFrom,
                   halted, advections, divisionCalls, everFailed>>
    /\ UNCHANGED otherThanMesh

\* the mesh after a call that ended with `outcome`, and the record of the call; a
\* mesh is followed no further once a call has aborted or left a node at NaN
Leaves(op, index, axis, outcome) ==
    /\ mNodes' = outcome.nodes
    /\ mElements' = outcome.elements
    /\ mElementFluidSources' = outcome.sources
    /\ halted' = (outcome.result = "abort"
                    \/ \E g \in 1..Len(outcome.nodes) : IsNaN(outcome.nodes[g].loc))
    /\ lastCall' = [op |-> op, index |-> index, axis |-> axis, result |-> outcome.result,
                    ret |-> outcome.ret, nodes |-> mNodes, elements |-> mElements,
                    sources |-> mElementFluidSources]
    /\ divisionCalls' = divisionCalls + 1
    /\ everFailed' = (everFailed \/ outcome.result # "ok")
    /\ UNCHANGED <<mMembraneIndex, mElementDivisionSpacing, builtFrom, spacingEverSet,
                   advections>>

\* a call of DivideElementAlongGivenAxis on an element of the mesh
CallDivideElementAlongGivenAxis ==
    /\ ~halted
    /\ Len(mElements) < MaxElements
    /\ divisionCalls < MaxDivisionCalls
    /\ \E index \in 0..(Len(mElements) - 1), axisOfDivision \in Axes :
          Leaves("divide", index, axisOfDivision,
                 DivideElementAlongGivenAxis(mNodes, mElements, mElementFluidSources,
                                             mMembraneIndex, mElementDivisionSpacing,
                                             index, axisOfDivision))
    /\ UNCHANGED otherThanMesh

\* a call of DivideElementAlongShortAxis: GetShortAxisOfElement returns the
\* eigenvector of the smaller second moment, or a direction drawn at random when
\* the moments are equal; the model lets it return any direction of Axes
CallDivideElementAlongShortAxis ==
    /\ ~halted
    /\ Len(mElements) < MaxElements
    /\ divisionCalls < MaxDivisionCalls
    /\ \E index \in 0..(Len(mElements) - 1), short_axis \in Axes :
          Leaves("divideShort", index, short_axis,
                 DivideElementAlongGivenAxis(mNodes, mElements, mElementFluidSources,
                                             mMembraneIndex, mElementDivisionSpacing,
                                             index, short_axis))
    /\ UNCHANGED otherThanMesh

\* the node update of a time step: every node is moved, here all by the same
\* displacement, and its location is then reduced into [0,1)
AdvectMeshNodes ==
    /\ ~halted
    /\ advections < MaxAdvections
    /\ \E displacement \in Displacements :
          mNodes' = [g \in 1..Len(mNodes) |->
                        [mNodes[g] EXCEPT !.loc = <<(@[1] + displacement[1]) % Scale,
                                                    (@[2] + displacement[2]) % Scale>>]]
    /\ advections' = advections + 1
    /\ lastCall' = [NoCall EXCEPT !.op = "advect"]
    /\ UNCHANGED <<mElements, mElementFluidSources, mMembraneIndex,
                   mElementDivisionSpacing, builtFrom, spacingEverSet, halted,
                   divisionCalls, everFailed>>
    /\ UNCHANGED otherThanMesh

-----------------------------------------------------------------------------
(* The mesh: fluid grid size, balancing sources and characteristic node spacing *)

\* GetSurfaceAreaOfElement(index): the distances between the nodes local_index and
\* local_index + 1 of the ring, added up from local_index on
RECURSIVE SurfaceAreaFrom(_, _, _)
SurfaceAreaFrom(nodes, elem, local_index) ==
    IF local_index = GetNumNodes(elem) THEN 0
    ELSE norm_2(GetVectorFromAtoB(
                    GetNodeLocation(nodes, elem, local_index),
                    GetNodeLocation(nodes, elem, (local_index + 1) % GetNumNodes(elem))))
            + SurfaceAreaFrom(nodes, elem, local_index + 1)

GetSurfaceAreaOfElement(nodes, elements, index) ==
    SurfaceAreaFrom(nodes, ElementAt(elements, index), 0)

\* the constructor's total_perimeter / double(total_nodes) over the elements other
\* than the membrane
RECURSIVE TotalPerimeter(_, _, _, _)
TotalPerimeter(nodes, elements, membraneIndex, elem_index) ==
    IF elem_index = Len(elements) THEN 0
    ELSE (IF elem_index # membraneIndex
          THEN GetSurfaceAreaOfElement(nodes, elements, elem_index) ELSE 0)
            + TotalPerimeter(nodes, elements, membraneIndex, elem_index + 1)

RECURSIVE TotalNodes(_, _, _)
TotalNodes(elements, membraneIndex, elem_index) ==
    IF elem_index = Len(elements) THEN 0
    ELSE (IF elem_index # membraneIndex
          THEN GetNumNodes(ElementAt(elements, elem_index)) ELSE 0)
            + TotalNodes(elements, membraneIndex, elem_index + 1)

MeanNodeSpacing(nodes, elements, membraneIndex) ==
    IF TotalNodes(elements, membraneIndex, 0) = 0 THEN NotANumber
    ELSE TotalPerimeter(nodes, elements, membraneIndex, 0)
            \div TotalNodes(elements, membraneIndex, 0)

\* the constructor's loop that places a balancing source every
\* balancing_source_spacing from current_location on, while current_location < 1
RECURSIVE PlaceBalancingSources(_, _, _)
PlaceBalancingSources(sources, current_location, balancing_source_spacing) ==
    IF current_location < Scale
    THEN PlaceBalancingSources(
            Append(sources, [index |-> Len(sources), loc |-> <<current_location, 0>>]),
            current_location + balancing_source_spacing, balancing_source_spacing)
    ELSE sources

\* numbers of fluid grid points a mesh is given, and the meshes they are given to
GridPts == {10, 20}
GridInputs == {input \in MeshInputs :
                  input.elements \in {<<Consecutive(0, 12)>>,
                                      <<Consecutive(0, 4), Consecutive(4, 12)>>}
                  /\ input.locations[Len(input.locations)] = <<60, 90>>}

\* ImmersedBoundaryMesh(nodes, elements, numGridPtsX, numGridPtsY, membraneIndex):
\* the grid size, the characteristic node spacing and the balancing sources
ConstructGridFromLists(input, numGridPtsX, numGridPtsY) ==
    LET balancing_source_spacing == (4 * Scale) \div numGridPtsX
    IN /\ meshNumGridPtsX = numGridPtsX
       /\ meshNumGridPtsY = numGridPtsY
       /\ mCharacteristicNodeSpacing =
              MeanNodeSpacing(NodesOf(input), ElementsOf(input), input.membrane)
       /\ mBalancingFluidSources =
              PlaceBalancingSources(<<>>, balancing_source_spacing \div 8,
                                    balancing_source_spacing)

GridInit ==
    /\ \E input \in GridInputs, numGridPtsX \in GridPts, numGridPtsY \in GridPts :
          ConstructFromLists(input) /\ ConstructGridFromLists(input, numGridPtsX, numGridPtsY)
    /\ spacingEverSet = FALSE
    /\ lastCall = NoCall
    /\ halted = FALSE
    /\ advections = 0
    /\ divisionCalls = 0
    /\ everFailed = FALSE

GridIdle ==
    /\ meshNumGridPtsX = 0
    /\ meshNumGridPtsY = 0
    /\ mBalancingFluidSources = <<>>
    /\ mCharacteristicNodeSpacing = 0

\* GetSpacingRatio(): mCharacteristicNodeSpacing / (1.0 / double(mNumGridPtsX))
GetSpacingRatio == mCharacteristicNodeSpacing * meshNumGridPtsX

\* SetNumGridPtsX(mesh_points_x)
SetNumGridPtsX ==
    /\ ~halted
    /\ \E mesh_points_x \in GridPts : meshNumGridPtsX' = mesh_points_x
    /\ UNCHANGED <<meshNumGridPtsY, mBalancingFluidSources, mCharacteristicNodeSpacing>>
    /\ UNCHANGED <<meshVars, otherThanMeshAndGrid>>

\* SetNumGridPtsY(mesh_points_y)
SetNumGridPtsY ==
    /\ ~halted
    /\ \E mesh_points_y \in GridPts : meshNumGridPtsY' = mesh_points_y
    /\ UNCHANGED <<meshNumGridPtsX, mBalancingFluidSources, mCharacteristicNodeSpacing>>
    /\ UNCHANGED <<meshVars, otherThanMeshAndGrid>>

\* SetNumGridPtsXAndY(numGridPts)
SetNumGridPtsXAndY ==
    /\ ~halted
    /\ \E numGridPts \in GridPts :
          /\ meshNumGridPtsX' = numGridPts
          /\ meshNumGridPtsY' = numGridPts
    /\ UNCHANGED <<mBalancingFluidSources, mCharacteristicNodeSpacing>>
    /\ UNCHANGED <<meshVars, otherThanMeshAndGrid>>

-----------------------------------------------------------------------------
(* The force modules: ImmersedBoundaryCellCellInteractionForce and            *)
(* ImmersedBoundaryMembraneElasticityForce, and their archives                *)

\* most calls of AddImmersedBoundaryForceContribution made on one object, and the
\* number of terms the exponential series is summed to
MaxForceCalls == 2
ExpTerms == 8

\* mSpringConst(1e3) and mNumProteins(3) of the constructor
DefaultSpringConst == 1000
mNumProteins == 3

\* a quotient rounded towards zero: like the rounding of a double quotient, the
\* rounding of -a / b is minus the rounding of a / b
SymDiv(a, b) == IF a < 0 THEN -((-a) \div b) ELSE a \div b

\* exp(x) for x in units of 1/Scale, in units of 1/Scale: the series to ExpTerms terms
RECURSIVE ExpSeries(_, _, _)
ExpSeries(x, k, term) ==
    IF k > ExpTerms THEN 0
    ELSE term + ExpSeries(x, k + 1, SymDiv(term * x, k * Scale))

exp(x) == ExpSeries(x, 1, Scale)

\* values a spring constant, a rest length or a rest length multiplier is set to
SpringConstants == {12, DefaultSpringConst}
RestLengths == {12, 34}

\* the cell population the cell-cell force is called with: GetInteractionDistance()
\* and GetIntrinsicSpacing()
InteractionDistance == Scale \div 5
IntrinsicSpacing == Scale \div 20

\* the nodes of the population: four in element 0 and two in element 1, the last
\* two of element 0 across the periodic boundary from the last of element 1, with
\* the attributes they have before the force module is first called
PopulationLocations == <<<<100, 100>>, <<100, 130>>, <<120, 100>>, <<10, 100>>,
                         <<170, 100>>, <<190, 100>>>>
PopulationElements == <<0, 0, 1, 1, 0, 0>>
InitialAttributes == {[n \in 1..Len(PopulationLocations) |-> <<>>],
                      [n \in 1..Len(PopulationLocations) |-> <<7>>],
                      [n \in 1..Len(PopulationLocations) |-> IF n = 1 THEN <<7>> ELSE <<>>]}

\* the lists of node pairs a call is handed, and the average node spacings the
\* mesh reports for the two elements
NodePairLists == {<<>>, <<<<1, 3>>>>, <<<<3, 2>>>>, <<<<1, 2>>>>, <<<<1, 4>>>>,
                  <<<<1, 3>>, <<2, 4>>>>, <<<<5, 4>>>>, <<<<6, 4>>>>}
ElementSpacings == {<<10, 10>>, <<10, 20>>, <<20, 20>>}

\* ImmersedBoundaryCellCellInteractionForce(): mLinearSpring and mMorse are given
\* no value by the constructor, so each holds either value
ConstructCellCellInteractionForce(linear, morse) ==
    [class |-> "cellcell", mSpringConst |-> DefaultSpringConst, mRestLength |-> DoubleUnset,
     mLinearSpring |-> linear, mMorse |-> morse,
     mProteinNodeAttributeLocations |-> <<>>, calls |-> 0]

\* ImmersedBoundaryMembraneElasticityForce(): the default constructor has an empty
\* body, so the four archived members hold any value
ConstructMembraneElasticityForce(spring, rest) ==
    [class |-> "membrane", mSpringConstant |-> spring, mRestLengthMultiplier |-> rest,
     mBasementSpringConstantModifier |-> spring, mBasementRestLengthModifier |-> rest]

\* the decimal digits a number is written with in a text archive, and the number
\* read back from digits
RECURSIVE WriteNumber(_)
WriteNumber(n) == IF n < 10 THEN <<n>> ELSE Append(WriteNumber(n \div 10), n % 10)

RECURSIVE ReadNumber(_)
ReadNumber(digits) ==
    IF Len(digits) = 1 THEN digits[1]
    ELSE 10 * ReadNumber(SubSeq(digits, 1, Len(digits) - 1)) + digits[Len(digits)]

WriteBool(b) == IF b THEN <<1>> ELSE <<0>>
ReadBool(digits) == ReadNumber(digits) # 0

\* serialize of the membrane force when saving, with the rest length multiplier
\* left out of the members archived: DOUBLE_UNSET is read back in its place
SaveMembraneForceWithoutRestLength(obj) ==
    <<WriteNumber(obj.mSpringConstant), WriteNumber(DoubleUnset),
      WriteNumber(obj.mBasementSpringConstantModifier),
      WriteNumber(obj.mBasementRestLengthModifier)>>

\* serialize of the membrane force when saving: the members in the order archived
SaveMembraneForce(obj) ==
    <<WriteNumber(obj.mSpringConstant), WriteNumber(obj.mRestLengthMultiplier),
      WriteNumber(obj.mBasementSpringConstantModifier),
      WriteNumber(obj.mBasementRestLengthModifier)>>

\* serialize of the membrane force when loading, into a default-constructed object
LoadMembraneForce(text) ==
    [class |-> "membrane", mSpringConstant |-> ReadNumber(text[1]),
     mRestLengthMultiplier |-> ReadNumber(text[2]),
     mBasementSpringConstantModifier |-> ReadNumber(text[3]),
     mBasementRestLengthModifier |-> ReadNumber(text[4])]

\* the archive of the cell-cell force: spring constant, rest length and the two
\* booleans of the law
SaveCellCellForce(obj) ==
    <<WriteNumber(obj.mSpringConst), WriteNumber(obj.mRestLength),
      WriteBool(obj.mLinearSpring), WriteBool(obj.mMorse)>>

LoadCellCellForce(text) ==
    [ConstructCellCellInteractionForce(ReadBool(text[3]), ReadBool(text[4]))
        EXCEPT !.mSpringConst = ReadNumber(text[1]), !.mRestLength = ReadNumber(text[2])]

\* the test of AddImmersedBoundaryForceContribution that runs the set-up at every call
ProteinsNotSetUpAlways(locations) == TRUE

\* mProteinNodeAttributeLocations.empty()
ProteinsNotSetUp(locations) == locations = <<>>

\* InitializeProteinLevels(): e_cad = 1.0, p_cad = 0.0, integrin = 0.0 added to the
\* three protein attributes of every node of every element
InitializeProteinLevels(nodes, locations) ==
    [n \in 1..Len(nodes) |->
        [nodes[n] EXCEPT !.attributes =
            [k \in 1..Len(@) |->
                IF k = locations[1] + 1 THEN @[k] + 1
                ELSE IF k = locations[2] + 1 THEN @[k] + 0
                ELSE IF k = locations[3] + 1 THEN @[k] + 0
                ELSE @[k]]]]

\* the set-up of the first call: the rest length, the check that all nodes have as
\* many attributes as node 0, the attribute locations, mNumProteins attributes 0.0
\* added to each node, and the initial protein levels
SetUpProteins(obj, nodes) ==
    LET num_node_attributes == Len(nodes[1].attributes)
        rested == [obj EXCEPT !.mRestLength = InteractionDistance \div 4]
        locations == [protein_idx \in 1..mNumProteins |->
                        num_node_attributes + protein_idx - 1]
        extended == [n \in 1..Len(nodes) |->
                        [nodes[n] EXCEPT !.attributes =
                            @ \o [protein_idx \in 1..mNumProteins |-> 0]]]
    IN IF \E n \in 1..Len(nodes) : Len(nodes[n].attributes) # num_node_attributes
       THEN [result |-> "exception", obj |-> rested, nodes |-> nodes]
       ELSE [result |-> "ok",
             obj |-> [rested EXCEPT !.mProteinNodeAttributeLocations = locations],
             nodes |-> InitializeProteinLevels(extended, locations)]

Min(a, b) == IF a < b THEN a ELSE b
Max(a, b) == IF a > b THEN a ELSE b

\* force_b_to_a without the factor -1.0
ForceBToASameSign(vector_between_nodes, elem_spacing, node_b_elem_spacing) ==
    <<SymDiv(vector_between_nodes[1] * elem_spacing, node_b_elem_spacing),
      SymDiv(vector_between_nodes[2] * elem_spacing, node_b_elem_spacing)>>

\* force_a_to_b = vector_between_nodes * elem_spacing / node_a_elem_spacing
ForceAToB(vector_between_nodes, elem_spacing, node_a_elem_spacing) ==
    <<SymDiv(vector_between_nodes[1] * elem_spacing, node_a_elem_spacing),
      SymDiv(vector_between_nodes[2] * elem_spacing, node_a_elem_spacing)>>

\* force_b_to_a = -1.0 * vector_between_nodes * elem_spacing / node_b_elem_spacing
ForceBToA(vector_between_nodes, elem_spacing, node_b_elem_spacing) ==
    <<SymDiv((-vector_between_nodes[1]) * elem_spacing, node_b_elem_spacing),
      SymDiv((-vector_between_nodes[2]) * elem_spacing, node_b_elem_spacing)>>

\* the test of a loop that lets a pair at exactly the interaction distance interact
PairInteractsInclusive(elem_a, elem_b, normed_dist) ==
    elem_a # elem_b /\ normed_dist <= InteractionDistance

\* the two tests a pair passes before it contributes: the first containing elements
\* of the nodes differ, and normed_dist < GetInteractionDistance()
PairInteracts(elem_a, elem_b, normed_dist) ==
    elem_a # elem_b /\ normed_dist < InteractionDistance

\* the body of the loop over the pairs for one pair (a, b) of node numbers: the
\* nodes with the two contributions added, when a and b are in different elements
\* and nearer than the interaction distance
AddPairContribution(obj, nodes, spacing, a, b) ==
    LET vector_between_nodes == GetVectorFromAtoB(nodes[a].loc, nodes[b].loc)
        normed_dist == norm_2(vector_between_nodes)
        e_cad_idx == obj.mProteinNodeAttributeLocations[1] + 1
        p_cad_idx == obj.mProteinNodeAttributeLocations[2] + 1
        integrin_idx == obj.mProteinNodeAttributeLocations[3] + 1
        well_width == InteractionDistance \div 4
        node_a_elem_spacing == spacing[nodes[a].elem + 1]
        node_b_elem_spacing == spacing[nodes[b].elem + 1]
        elem_spacing == SymDiv(node_a_elem_spacing + node_b_elem_spacing, 2)
        effective_spring_const == SymDiv(obj.mSpringConst * elem_spacing, IntrinsicSpacing)
        protein_mult ==
            Min(nodes[a].attributes[e_cad_idx], nodes[b].attributes[e_cad_idx])
            + Min(nodes[a].attributes[p_cad_idx], nodes[b].attributes[p_cad_idx])
            + Max(nodes[a].attributes[integrin_idx], nodes[b].attributes[integrin_idx])
        morse_exp == exp(SymDiv((obj.mRestLength - normed_dist) * Scale, well_width))
        multiplier ==
            IF obj.mLinearSpring
            THEN effective_spring_const * protein_mult * (normed_dist - obj.mRestLength)
            ELSE SymDiv(2 * well_width * effective_spring_const * protein_mult
                            * SymDiv(morse_exp * (Scale - morse_exp), Scale), Scale)
        scaled == <<SymDiv(vector_between_nodes[1] * multiplier, normed_dist),
                    SymDiv(vector_between_nodes[2] * multiplier, normed_dist)>>
        force_a_to_b == ForceAToB(scaled, elem_spacing, node_a_elem_spacing)
        force_b_to_a == ForceBToA(scaled, elem_spacing, node_b_elem_spacing)
    IN IF ~PairInteracts(nodes[a].elem, nodes[b].elem, normed_dist) THEN nodes
       ELSE [nodes EXCEPT
                ![a].force = <<@[1] + force_a_to_b[1], @[2] + force_a_to_b[2]>>,
                ![b].force = <<@[1] + force_b_to_a[1], @[2] + force_b_to_a[2]>>]

\* the loop over all pairs of nodes that might be interacting
RECURSIVE AddPairContributions(_, _, _, _, _)
AddPairContributions(obj, nodes, spacing, rNodePairs, pair) ==
    IF pair > Len(rNodePairs) THEN nodes
    ELSE AddPairContributions(
            obj,
            AddPairContribution(obj, nodes, spacing,
                                rNodePairs[pair][1], rNodePairs[pair][2]),
            spacing, rNodePairs, pair + 1)

NoArchive == [class |-> "none", text |-> <<>>, of |-> [class |-> "none"]]
NoForceOp == [op |-> "none", result |-> "none", pairs |-> <<>>, before |-> <<>>,
              first |-> FALSE]

\* a force object of either class, newly constructed
ForceInit ==
    /\ \/ \E linear \in BOOLEAN, morse \in BOOLEAN :
            forceObject = ConstructCellCellInteractionForce(linear, morse)
       \/ \E spring \in SpringConstants, rest \in RestLengths :
            forceObject = ConstructMembraneElasticityForce(spring, rest)
    /\ archive = NoArchive
    /\ lastForceOp = NoForceOp
    /\ popNodes = <<>>
    /\ elemSpacing = <<>>

\* a cell-cell force newly constructed, and the population it will be called with
PairsInit ==
    /\ \E linear \in BOOLEAN, morse \in BOOLEAN :
          forceObject = ConstructCellCellInteractionForce(linear, morse)
    /\ archive = NoArchive
    /\ lastForceOp = NoForceOp
    /\ \E attributes \in InitialAttributes :
          popNodes = [n \in 1..Len(PopulationLocations) |->
                        [loc |-> PopulationLocations[n], elem |-> PopulationElements[n],
                         attributes |-> attributes[n], force |-> <<0, 0>>]]
    /\ elemSpacing \in ElementSpacings

ForceIdle ==
    /\ forceObject = [class |-> "none"]
    /\ archive = NoArchive
    /\ lastForceOp = NoForceOp
    /\ popNodes = <<>>
    /\ elemSpacing = <<>>

\* SetSpringConstant(springConst) of the cell-cell force
SetSpringConstant ==
    /\ forceObject.class = "cellcell"
    /\ \E springConst \in SpringConstants : forceObject' = [forceObject EXCEPT !.mSpringConst = springConst]
    /\ lastForceOp' = [NoForceOp EXCEPT !.op = "set"]
    /\ UNCHANGED <<archive, popNodes, elemSpacing>>
    /\ UNCHANGED otherThanForce

\* SetRestLength(restLength) of the cell-cell force
SetRestLength ==
    /\ forceObject.class = "cellcell"
    /\ \E restLength \in RestLengths : forceObject' = [forceObject EXCEPT !.mRestLength = restLength]
    /\ lastForceOp' = [NoForceOp EXCEPT !.op = "set"]
    /\ UNCHANGED <<archive, popNodes, elemSpacing>>
    /\ UNCHANGED otherThanForce

UseLinearSpringLaw ==
    /\ forceObject.class = "cellcell"
    /\ forceObject' = [forceObject EXCEPT !.mLinearSpring = TRUE, !.mMorse = FALSE]
    /\ lastForceOp' = [NoForceOp EXCEPT !.op = "law"]
    /\ UNCHANGED <<archive, popNodes, elemSpacing>>
    /\ UNCHANGED otherThanForce

UseMorsePotential ==
    /\ forceObject.class = "cellcell"
    /\ forceObject' = [forceObject EXCEPT !.mLinearSpring = FALSE, !.mMorse = TRUE]
    /\ lastForceOp' = [NoForceOp EXCEPT !.op = "law"]
    /\ UNCHANGED <<archive, popNodes, elemSpacing>>
    /\ UNCHANGED otherThanForce

IsLinearSpringLaw == forceObject.mLinearSpring
IsMorsePotential == forceObject.mMorse

\* SetSpringConstant(springConstant) of the membrane force
MembraneSetSpringConstant ==
    /\ forceObject.class = "membrane"
    /\ \E springConstant \in SpringConstants :
          forceObject' = [forceObject EXCEPT !.mSpringConstant = springConstant]
    /\ lastForceOp' = [NoForceOp EXCEPT !.op = "set"]
    /\ UNCHANGED <<archive, popNodes, elemSpacing>>
    /\ UNCHANGED otherThanForce

\* SetRestLengthMultiplier(restLengthMultiplier) of the membrane force
SetRestLengthMultiplier ==
    /\ forceObject.class = "membrane"
    /\ \E restLengthMultiplier \in RestLengths :
          forceObject' = [forceObject EXCEPT !.mRestLengthMultiplier = restLengthMultiplier]
    /\ lastForceOp' = [NoForceOp EXCEPT !.op = "set"]
    /\ UNCHANGED <<archive, popNodes, elemSpacing>>
    /\ UNCHANGED otherThanForce

\* output_arch << p_force, p_force a pointer to the abstract force class: the
\* archive names the class of the object and holds its members as text
SaveForce ==
    /\ archive' = [class |-> forceObject.class,
                   text |-> IF forceObject.class = "membrane" THEN SaveMembraneForce(forceObject)
                            ELSE SaveCellCellForce(forceObject),
                   of |-> forceObject]
    /\ lastForceOp' = [NoForceOp EXCEPT !.op = "save"]
    /\ UNCHANGED <<forceObject, popNodes, elemSpacing>>
    /\ UNCHANGED otherThanForce

\* input_arch >> p_force: an object of the class the archive names is constructed
\* and its members are read back; the restored object takes the place of the other
RestoreForce ==
    /\ archive.class # "none"
    /\ forceObject' = IF archive.class = "membrane" THEN LoadMembraneForce(archive.text)
                ELSE LoadCellCellForce(archive.text)
    /\ lastForceOp' = [NoForceOp EXCEPT !.op = "restore"]
    /\ UNCHANGED <<archive, popNodes, elemSpacing>>
    /\ UNCHANGED otherThanForce

\* AddImmersedBoundaryForceContribution(rNodePairs, rCellPopulation) of the
\* cell-cell force
AddImmersedBoundaryForceContribution ==
    /\ forceObject.class = "cellcell"
    /\ forceObject.calls < MaxForceCalls
    /\ \E rNodePairs \in NodePairLists :
          LET set_up == IF ProteinsNotSetUp(forceObject.mProteinNodeAttributeLocations)
                        THEN SetUpProteins(forceObject, popNodes)
                        ELSE [result |-> "ok", obj |-> forceObject, nodes |-> popNodes]
          IN /\ forceObject' = [set_up.obj EXCEPT !.calls = @ + 1]
             /\ popNodes' = IF set_up.result = "exception" THEN set_up.nodes
                            ELSE AddPairContributions(set_up.obj, set_up.nodes, elemSpacing,
                                                      rNodePairs, 1)
             /\ lastForceOp' = [op |-> "force", result |-> set_up.result,
                                pairs |-> rNodePairs, before |-> popNodes,
                                first |-> (forceObject.calls = 0)]
    /\ UNCHANGED <<archive, elemSpacing>>
    /\ UNCHANGED otherThanForce

-----------------------------------------------------------------------------
(* The mesh: the average node spacing stored on each element *)

\* most calls of GetAverageNodeSpacingOfElement made on a mesh
MaxSpacingCalls == 2

\* the spacing stored on the elements 0 .. MaxElements - 1; an element holds
\* DOUBLE_UNSET from its construction until a first value is stored
NoStoredSpacing == [e \in 0..(MaxElements - 1) |-> DoubleUnset]

NoSpacingCall == [op |-> "none", index |-> UIntMax, recalculate |-> FALSE,
                  ret |-> DoubleUnset, stored |-> DoubleUnset, nodes |-> <<>>,
                  elements |-> <<>>, calls |-> 0]

\* the test a call that ignores its flag once a value is stored would make
MustRecalculateOnlyWhenUnset(recalculate, stored) == stored = DoubleUnset

\* recalculate || GetAverageNodeSpacing() == DOUBLE_UNSET
MustRecalculate(recalculate, stored) == recalculate \/ stored = DoubleUnset

\* GetAverageNodeSpacingOfElement(index, recalculate): the value returned and the
\* spacings stored on the elements afterwards
GetAverageNodeSpacingOfElement(nodes, elements, spacings, index, recalculate) ==
    IF MustRecalculate(recalculate, spacings[index])
    THEN LET average_node_spacing ==
                 GetSurfaceAreaOfElement(nodes, elements, index)
                    \div GetNumNodes(ElementAt(elements, index))
         IN [ret |-> average_node_spacing,
             spacings |-> [spacings EXCEPT ![index] = average_node_spacing]]
    ELSE [ret |-> spacings[index], spacings |-> spacings]

SpacingInit ==
    /\ \E input \in GridInputs : ConstructFromLists(input)
    /\ spacingEverSet = FALSE
    /\ lastCall = NoCall
    /\ halted = FALSE
    /\ advections = 0
    /\ divisionCalls = 0
    /\ everFailed = FALSE
    /\ mAverageNodeSpacing = NoStoredSpacing
    /\ lastComputedSpacing = NoStoredSpacing
    /\ lastSpacingCall = NoSpacingCall

SpacingIdle ==
    /\ mAverageNodeSpacing = NoStoredSpacing
    /\ lastComputedSpacing = NoStoredSpacing
    /\ lastSpacingCall = NoSpacingCall

\* a call of GetAverageNodeSpacingOfElement on an element of the mesh;
\* lastComputedSpacing keeps what the last call that computed returned
CallGetAverageNodeSpacingOfElement ==
    /\ ~halted
    /\ lastSpacingCall.calls < MaxSpacingCalls
    /\ \E index \in 0..(Len(mElements) - 1), recalculate \in BOOLEAN :
          LET call == GetAverageNodeSpacingOfElement(mNodes, mElements,
                                                     mAverageNodeSpacing, index,
                                                     recalculate)
          IN /\ mAverageNodeSpacing' = call.spacings
             /\ lastComputedSpacing' =
                    IF recalculate \/ mAverageNodeSpacing[index] = DoubleUnset
                    THEN [lastComputedSpacing EXCEPT ![index] = call.ret]
                    ELSE lastComputedSpacing
             /\ lastSpacingCall' =
                    [op |-> "spacing", index |-> index, recalculate |-> recalculate,
                     ret |-> call.ret, stored |-> mAverageNodeSpacing[index],
                     nodes |-> mNodes, elements |-> mElements,
                     calls |-> lastSpacingCall.calls + 1]
    /\ UNCHANGED <<meshVars, otherThanMeshAndSpacing>>

-----------------------------------------------------------------------------
(* The mesh: the volume of an element, and elements moved across the boundary *)

\* most translations applied to an element
MaxMoves == 2

\* outlines whose nodes are less than 0.5 from their first node in each component,
\* exactly 0.5 from it in x, and more than 0.5 from it in x
Kite == <<<<0, 0>>, <<50, 0>>, <<90, 40>>, <<0, 40>>>>
HalfWide == <<<<0, 0>>, <<50, 0>>, <<100, 40>>, <<0, 40>>>>
TooWide == <<<<0, 0>>, <<50, 0>>, <<120, 40>>, <<0, 40>>>>

\* an outline walked the other way round from its first node
Reversed(outline) ==
    [i \in 1..Len(outline) |-> IF i = 1 THEN outline[1] ELSE outline[Len(outline) + 2 - i]]

VolumeOutlines ==
    LET shapes == {Rectangle, Horseshoe, Triangle, Kite, HalfWide, TooWide}
    IN shapes \cup {Reversed(shape) : shape \in shapes}

VolumePlacements == {<<10, 10>>, <<60, 70>>, <<150, 180>>}
VolumeDisplacements == {<<100, 0>>, <<30, 170>>, <<0, 100>>, <<199, 1>>}

\* 2 * element_volume of GetVolumeOfElement once the nodes local_index .. have been
\* added: pos_1 is the vector from the first node to the node local_index
RECURSIVE VolumeSums(_, _, _, _)
VolumeSums(nodes, elem, local_index, pos_1) ==
    IF local_index = GetNumNodes(elem) THEN 0
    ELSE LET pos_2 == GetVectorFromAtoB(
                          GetNodeLocation(nodes, elem, 0),
                          GetNodeLocation(nodes, elem, (local_index + 1) % GetNumNodes(elem)))
         IN (pos_1[1] * pos_2[2] - pos_2[1] * pos_1[2])
                + VolumeSums(nodes, elem, local_index + 1, pos_2)

\* the value returned were the absolute value not taken
GetVolumeOfElementWithoutFabs(nodes, elements, index) ==
    VolumeSums(nodes, ElementAt(elements, index), 0, <<0, 0>>)

\* GetVolumeOfElement(index), in units of half a square unit of the coordinates
GetVolumeOfElement(nodes, elements, index) ==
    Abs(VolumeSums(nodes, ElementAt(elements, index), 0, <<0, 0>>))

NoVolume == 0 - 1
NoVolumeCall == [op |-> "none", ret |-> NoVolume, nodes |-> <<>>, moves |-> 0]

VolumeInit ==
    /\ \E outline \in VolumeOutlines, at \in VolumePlacements :
          /\ volOutline = outline
          /\ volNodes = [g \in 1..Len(outline) |->
                            [index |-> g - 1, loc |-> Placed(outline, at)[g]]]
          /\ volElements = <<[index |-> 0, nodes |-> Consecutive(0, Len(outline))]>>
    /\ volMoves = 0
    /\ firstVolume = NoVolume
    /\ lastVolumeCall = NoVolumeCall

VolumeIdle ==
    /\ volNodes = <<>>
    /\ volElements = <<>>
    /\ volOutline = <<>>
    /\ volMoves = 0
    /\ firstVolume = NoVolume
    /\ lastVolumeCall = NoVolumeCall

\* every node of the element moved by the same displacement and reduced into [0,1)
TranslateElement ==
    /\ volMoves < MaxMoves
    /\ \E displacement \in VolumeDisplacements :
          volNodes' = [g \in 1..Len(volNodes) |->
                          [volNodes[g] EXCEPT !.loc = <<(@[1] + displacement[1]) % Scale,
                                                        (@[2] + displacement[2]) % Scale>>]]
    /\ volMoves' = volMoves + 1
    /\ UNCHANGED <<volElements, volOutline, firstVolume, lastVolumeCall>>
    /\ UNCHANGED otherThanVolume

\* a call of GetVolumeOfElement(0); firstVolume keeps what the first call returned
CallGetVolumeOfElement ==
    /\ lastVolumeCall.op = "none" \/ lastVolumeCall.nodes # volNodes
    /\ LET ret == GetVolumeOfElement(volNodes, volElements, 0)
       IN /\ lastVolumeCall' = [op |-> "volume", ret |-> ret, nodes |-> volNodes,
                                moves |-> volMoves]
          /\ firstVolume' = IF firstVolume = NoVolume THEN ret ELSE firstVolume
    /\ UNCHANGED <<volNodes, volElements, volOutline, volMoves>>
    /\ UNCHANGED otherThanVolume

-----------------------------------------------------------------------------
(* The upwind scheme: ImmersedBoundarySimulationModifier::UpwindScheme *)

\* largest grid size the loops are run on
MaxUpwindGrid == 4

\* an index moved on without being reduced
AdvanceWithoutWrap(index, numGridPts) == index + 1

\* prev_x = (prev_x + 1) % mNumGridPtsX, and the like
Advance(index, numGridPts) == (index + 1) % numGridPts

NoUpwindRead == [y |-> 0 - 1, x |-> 0 - 1, in_x |-> 0, in_y |-> 0, col |-> 0 - 1,
                 row |-> 0 - 1]

\* the start of UpwindScheme, before the first iteration of the loops
UpwindInit ==
    /\ upNumGridPtsX \in 2..MaxUpwindGrid
    /\ upNumGridPtsY \in 2..MaxUpwindGrid
    /\ upY = 0
    /\ upX = 0
    /\ prev_x = upNumGridPtsX - 1
    /\ prev_y = upNumGridPtsY - 1
    /\ next_x = 1
    /\ next_y = 1
    /\ lastUpwindRead = NoUpwindRead

UpwindIdle ==
    /\ upNumGridPtsX = 2
    /\ upNumGridPtsY = 2
    /\ upY = 0
    /\ upX = 0
    /\ prev_x = 1
    /\ prev_y = 1
    /\ next_x = 1
    /\ next_y = 1
    /\ lastUpwindRead = NoUpwindRead

\* one iteration of the loop over x: the cell (y, x) reads the column prev_x or
\* next_x of its row, by the sign of in_x[y][x], and the row prev_y or next_y of its
\* column, by the sign of in_y[y][x]; prev_x and next_x are then moved on
UpwindInnerIteration ==
    /\ upY < upNumGridPtsY
    /\ upX < upNumGridPtsX
    /\ \E in_x \in {0 - 1, 0, 1}, in_y \in {0 - 1, 0, 1} :
          lastUpwindRead' = [y |-> upY, x |-> upX, in_x |-> in_x, in_y |-> in_y,
                             col |-> IF in_x > 0 THEN prev_x ELSE next_x,
                             row |-> IF in_y > 0 THEN prev_y ELSE next_y]
    /\ prev_x' = Advance(prev_x, upNumGridPtsX)
    /\ next_x' = Advance(next_x, upNumGridPtsX)
    /\ upX' = upX + 1
    /\ UNCHANGED <<upNumGridPtsX, upNumGridPtsY, upY, prev_y, next_y>>
    /\ UNCHANGED otherThanUpwind

\* the end of an iteration of the loop over y: prev_y and next_y are moved on
UpwindEndOfRow ==
    /\ upY < upNumGridPtsY
    /\ upX = upNumGridPtsX
    /\ prev_y' = Advance(prev_y, upNumGridPtsY)
    /\ next_y' = Advance(next_y, upNumGridPtsY)
    /\ upY' = upY + 1
    /\ upX' = 0
    /\ UNCHANGED <<upNumGridPtsX, upNumGridPtsY, prev_x, next_x, lastUpwindRead>>
    /\ UNCHANGED otherThanUpwind

-----------------------------------------------------------------------------
(* The membrane elasticity force: ImmersedBoundaryMembraneElasticityForce *)

\* most calls of AddForceContribution made on a population
MaxMembraneCalls == 2

\* the regions of the nodes: basal, apical and lateral
Regions == {0, 1, 2}

\* the elements the force is tried on: node locations in ring order; the last has
\* two consecutive nodes at one location
MembraneOutlines ==
    {<<<<20, 20>>, <<60, 20>>, <<60, 50>>>>,
     <<<<180, 190>>, <<20, 190>>, <<20, 30>>, <<180, 10>>>>,
     <<<<20, 20>>, <<60, 20>>, <<60, 20>>, <<20, 50>>>>}

MembraneSpringConstants == {1, 2}
MembraneRestLengths == {0, 5}

\* a sum and a difference of two doubles, NaN if either is
PlusOrNaN(a, b) == IF a = NotANumber \/ b = NotANumber THEN NotANumber ELSE a + b
MinusOrNaN(a, b) == IF a = NotANumber \/ b = NotANumber THEN NotANumber ELSE a - b

\* elem_iter->GetNode(node_idx)->GetRegion() < 2
IsApicalOrBasal(elem_nodes, regions, node_idx) == regions[elem_nodes[node_idx + 1] + 1] < 2

\* the spring from node node_idx to the next node of the ring: the constants used
\* and elastic_force_to_next_node[node_idx], which is 0/0 for nodes at one location
Spring(nodes, elem, node_idx) ==
    LET num_nodes == Len(elem.nodes)
        next_idx == (node_idx + 1) % num_nodes
        regions == [g \in 1..Len(nodes) |-> nodes[g].region]
        modified == IsApicalOrBasal(elem.nodes, regions, node_idx)
        modified_spring_constant == IF modified THEN elem.spring_constant * 10
                                    ELSE elem.spring_constant
        modified_rest_length == IF modified THEN elem.rest_length * 4 ELSE elem.rest_length
        vector == GetVectorFromAtoB(nodes[elem.nodes[next_idx + 1] + 1].loc,
                                    nodes[elem.nodes[node_idx + 1] + 1].loc)
        normed_dist == norm_2(vector)
    IN [node_idx |-> node_idx, next_idx |-> next_idx,
        spring_constant |-> modified_spring_constant,
        rest_length |-> modified_rest_length,
        force |-> [c \in 1..2 |->
                      IF normed_dist = 0 THEN NotANumber
                      ELSE SymDiv(vector[c] * modified_spring_constant
                                      * (normed_dist - modified_rest_length),
                                  normed_dist)]]

\* an aggregate force in which the two springs of a node pull the same way
AggregateForceSameSign(springs, node_idx) ==
    LET prev_idx == (node_idx + Len(springs) - 1) % Len(springs)
    IN [c \in 1..2 |-> PlusOrNaN(springs[prev_idx + 1].force[c],
                                 springs[node_idx + 1].force[c])]

\* aggregate_force = elastic_force_to_next_node[prev_idx]
\*                       - elastic_force_to_next_node[node_idx]
AggregateForce(springs, node_idx) ==
    LET prev_idx == (node_idx + Len(springs) - 1) % Len(springs)
    IN [c \in 1..2 |-> MinusOrNaN(springs[prev_idx + 1].force[c],
                                  springs[node_idx + 1].force[c])]

SpringsOf(nodes, elem) == [i \in 1..Len(elem.nodes) |-> Spring(nodes, elem, i - 1)]

\* the loop over the elements from elem_index on: AddAppliedForceContribution of
\* the aggregate force to every node of every element
RECURSIVE AddElementContributions(_, _, _)
AddElementContributions(nodes, elements, elem_index) ==
    IF elem_index = Len(elements) THEN nodes
    ELSE LET elem == elements[elem_index + 1]
             springs == SpringsOf(nodes, elem)
             local(g) == CHOOSE i \in 0..(Len(elem.nodes) - 1) : elem.nodes[i + 1] = g - 1
         IN AddElementContributions(
                [g \in 1..Len(nodes) |->
                    IF \E i \in 1..Len(elem.nodes) : elem.nodes[i] = g - 1
                    THEN [nodes[g] EXCEPT !.applied =
                            [c \in 1..2 |->
                                PlusOrNaN(@[c], AggregateForce(springs, local(g))[c])]]
                    ELSE nodes[g]],
                elements, elem_index + 1)

\* a population of one element, its nodes tagged with any regions and carrying no
\* applied force, and the element's spring constant and rest length
MembraneInit ==
    /\ \E outline \in MembraneOutlines :
          /\ \E regions \in [1..Len(outline) -> Regions] :
                memNodes = [g \in 1..Len(outline) |->
                               [loc |-> outline[g], region |-> regions[g],
                                applied |-> <<0, 0>>]]
          /\ \E spring_constant \in MembraneSpringConstants,
                rest_length \in MembraneRestLengths :
                memElements = <<[nodes |-> [i \in 1..Len(outline) |-> i - 1],
                                 spring_constant |-> spring_constant,
                                 rest_length |-> rest_length]>>
    /\ memSprings = <<>>
    /\ memCalls = 0

MembraneIdle ==
    /\ memNodes = <<>>
    /\ memElements = <<>>
    /\ memSprings = <<>>
    /\ memCalls = 0

\* AddForceContribution(rNodePairs); memSprings keeps the springs of the call,
\* element by element
MembraneAddForceContribution ==
    /\ memCalls < MaxMembraneCalls
    /\ memNodes' = AddElementContributions(memNodes, memElements, 0)
    /\ memSprings' = [e \in 1..Len(memElements) |-> SpringsOf(memNodes, memElements[e])]
    /\ memCalls' = memCalls + 1
    /\ UNCHANGED memElements
    /\ UNCHANGED otherThanMembrane

\* ClearForces of the simulation modifier, between two calls
MembraneClearForces ==
    /\ memCalls > 0
    /\ \E g \in 1..Len(memNodes) : memNodes[g].applied # <<0, 0>>
    /\ memNodes' = [g \in 1..Len(memNodes) |-> [memNodes[g] EXCEPT !.applied = <<0, 0>>]]
    /\ UNCHANGED <<memElements, memSprings, memCalls>>
    /\ UNCHANGED otherThanMembrane

-----------------------------------------------------------------------------
(* Specifications *)

GeomNext == CallGetVectorFromAtoB

InitGeom == GeomInit /\ SpreadIdle /\ StepIdle /\ MeshIdle /\ GridIdle /\ ForceIdle /\ SpacingIdle
              /\ VolumeIdle
              /\ UpwindIdle
              /\ MembraneIdle

SpecGeom == InitGeom /\ [][GeomNext]_vars

SpreadNext == CallPropagateForcesToFluidGrid

InitSpread == GeomIdle /\ SpreadInit /\ StepIdle /\ MeshIdle /\ GridIdle /\ ForceIdle /\ SpacingIdle
              /\ VolumeIdle
              /\ UpwindIdle
              /\ MembraneIdle

SpecSpread == InitSpread /\ [][SpreadNext]_vars

StepNext ==
    \/ AddImmersedBoundaryForce
    \/ SetNodeNeighbourUpdateFrequency
    \/ SetupSolve
    \/ UpdateAtEndOfTimeStepRefresh
    \/ UpdateAtEndOfTimeStepKeep
    \/ ClearForces
    \/ AddForceContributions
    \/ SpreadForces
    \/ SolveNavierStokesSpectral
    \/ InterpolateVelocities
    \/ AdvectNodes

InitStep == GeomIdle /\ SpreadIdle /\ StepInit /\ MeshIdle /\ GridIdle /\ ForceIdle /\ SpacingIdle
              /\ VolumeIdle
              /\ UpwindIdle
              /\ MembraneIdle

SpecStep == InitStep /\ [][StepNext]_vars

MeshNext ==
    \/ SetElementDivisionSpacing
    \/ CallDivideElementAlongGivenAxis
    \/ CallDivideElementAlongShortAxis
    \/ AdvectMeshNodes

InitMesh == GeomIdle /\ SpreadIdle /\ StepIdle /\ MeshInit /\ GridIdle /\ ForceIdle /\ SpacingIdle
              /\ VolumeIdle
              /\ UpwindIdle
              /\ MembraneIdle

SpecMesh == InitMesh /\ [][MeshNext]_vars

GridNext ==
    \/ SetNumGridPtsX
    \/ SetNumGridPtsY
    \/ SetNumGridPtsXAndY
    \/ SetElementDivisionSpacing
    \/ CallDivideElementAlongGivenAxis

InitGrid == GeomIdle /\ SpreadIdle /\ StepIdle /\ GridInit /\ ForceIdle /\ SpacingIdle
              /\ VolumeIdle
              /\ UpwindIdle
              /\ MembraneIdle

SpecGrid == InitGrid /\ [][GridNext]_vars

ForceNext ==
    \/ SetSpringConstant
    \/ SetRestLength
    \/ UseLinearSpringLaw
    \/ UseMorsePotential
    \/ MembraneSetSpringConstant
    \/ SetRestLengthMultiplier
    \/ SaveForce
    \/ RestoreForce

InitForce == GeomIdle /\ SpreadIdle /\ StepIdle /\ MeshIdle /\ GridIdle /\ ForceInit /\ SpacingIdle
              /\ VolumeIdle
              /\ UpwindIdle
              /\ MembraneIdle

SpecForce == InitForce /\ [][ForceNext]_vars

PairsNext ==
    \/ SetSpringConstant
    \/ SetRestLength
    \/ UseLinearSpringLaw
    \/ UseMorsePotential
    \/ AddImmersedBoundaryForceContribution

InitPairs == GeomIdle /\ SpreadIdle /\ StepIdle /\ MeshIdle /\ GridIdle /\ PairsInit /\ SpacingIdle
              /\ VolumeIdle
              /\ UpwindIdle
              /\ MembraneIdle

SpecPairs == InitPairs /\ [][PairsNext]_vars

SpacingNext ==
    \/ CallGetAverageNodeSpacingOfElement
    \/ SetElementDivisionSpacing
    \/ CallDivideElementAlongGivenAxis
    \/ AdvectMeshNodes

InitSpacing == GeomIdle /\ SpreadIdle /\ StepIdle /\ GridIdle /\ ForceIdle /\ SpacingInit
              /\ VolumeIdle
              /\ UpwindIdle
              /\ MembraneIdle

SpecSpacing == InitSpacing /\ [][SpacingNext]_vars

VolumeNext ==
    \/ TranslateElement
    \/ CallGetVolumeOfElement

InitVolume == GeomIdle /\ SpreadIdle /\ StepIdle /\ MeshIdle /\ GridIdle /\ ForceIdle
              /\ SpacingIdle /\ VolumeInit
              /\ UpwindIdle
              /\ MembraneIdle

SpecVolume == InitVolume /\ [][VolumeNext]_vars

UpwindNext ==
    \/ UpwindInnerIteration
    \/ UpwindEndOfRow

InitUpwind == GeomIdle /\ SpreadIdle /\ StepIdle /\ MeshIdle /\ GridIdle /\ ForceIdle
              /\ SpacingIdle /\ VolumeIdle /\ UpwindInit
              /\ MembraneIdle

SpecUpwind == InitUpwind /\ [][UpwindNext]_vars

MembraneNext ==
    \/ MembraneAddForceContribution
    \/ MembraneClearForces

InitMembrane == GeomIdle /\ SpreadIdle /\ StepIdle /\ MeshIdle /\ GridIdle /\ ForceIdle
                /\ SpacingIdle /\ VolumeIdle /\ UpwindIdle /\ MembraneInit

SpecMembrane == InitMembrane /\ [][MembraneNext]_vars

-----------------------------------------------------------------------------
(* Claims about the per-step driver *)

PhaseOrder ==
    <<"refresh", "clear", "forces", "spread", "solve", "interpolate", "advect">>

Rank(phase) == CHOOSE k \in 1..Len(PhaseOrder) : PhaseOrder[k] = phase

Occurrences(phase) ==
    Cardinality({i \in 1..Len(phaseLog.phases) : phaseLog.phases[i] = phase})

C2_RefreshCadence ==
    /\ phaseLog.entry = "step"
          => (Occurrences("refresh") = 1 <=> phaseLog.n % phaseLog.c = 0)
    /\ \A i \in 1..Len(pairsHanded) :
          /\ pairsHanded[i].pairs = refreshLog.pairs
          /\ refreshLog.at = refreshLog.lastDue
          /\ refreshLog.at.setup \/ (0 <= refreshLog.at.n /\ refreshLog.at.n <= phaseLog.n)

\* in a step that is not due, a module was handed the list of an earlier step
\* although the nodes have moved since
C2_Witness ==
    /\ Len(pairsHanded) > 0
    /\ phaseLog.entry = "step"
    /\ phaseLog.n % phaseLog.c # 0
    /\ ~refreshLog.at.setup
    /\ refreshLog.at.n < phaseLog.n
    /\ pairsHanded[1].pairs # CalculateNodePairs(nodeLocations)

\* C22: when the fluid solve of a step, or of setup_solve, begins, the applied force
\* of every node is the sum of what the registered force modules added in this pass
\* and every cell of the two force grids is what spreading these forces onto zeroed
\* grids gives: nothing of an earlier step or of setup_solve is left in them.
C22_ForcesOfThisStep ==
    LET added == AddModuleForces(<<<<0, 0>>, <<0, 0>>>>, mForceCollection, 1, nodeLocations)
        spread == PropagateForcesToFluidGrid(
                      StepNodes(added, nodeLocations),
                      ZeroGrid(mNumGridPtsX, mNumGridPtsY),
                      ZeroGrid(mNumGridPtsX, mNumGridPtsY), mNumGridPtsX, mNumGridPtsY)
    IN pc = "solve" =>
          /\ appliedForces = added
          /\ mFluidForceGrids.x = spread.gridX
          /\ mFluidForceGrids.y = spread.gridY


\* the solve of a later step begins, forces having been applied and spread in
\* setup_solve and in the steps before
C22_Witness ==
    /\ pc = "solve"
    /\ phaseLog.entry = "step"
    /\ stepsRun >= 2
    /\ Len(mForceCollection) = 2
    /\ \E n \in 1..Len(appliedForces) : appliedForces[n] # <<0, 0>>
    /\ \E c \in DOMAIN mFluidForceGrids.x : mFluidForceGrids.x[c] # ZZero

-----------------------------------------------------------------------------
(* Claims about the periodic geometry kernel *)

\* C4: each component of vector_from(A, B) is at most 0.5 in absolute value, adding
\* it to A gives B modulo 1, and it is sign(A-B)*(1-|B-A|) if |B-A| > 0.5 and B-A
\* otherwise (so B-A when |B-A| = 0.5).
C4_VectorFromContract ==
    vectorAtoB # None =>
        \A d \in 1..2 :
            LET diff == rLocation2[d] - rLocation1[d]
                v == vectorAtoB[d]
            IN /\ Abs(v) <= HalfScale
               /\ (rLocation1[d] + v) % Scale = rLocation2[d]
               /\ IF Abs(diff) > HalfScale
                  THEN v = Sign(rLocation1[d] - rLocation2[d]) * (Scale - Abs(diff))
                  ELSE v = diff

\* a result one component of which was wrapped while the other lies at exactly 0.5
C4_Witness ==
    /\ vectorAtoB # None
    /\ Abs(rLocation2[1] - rLocation1[1]) > HalfScale
    /\ Abs(rLocation2[2] - rLocation1[2]) = HalfScale
    /\ vectorAtoB[1] # rLocation2[1] - rLocation1[1]

-----------------------------------------------------------------------------
(* Claims about the force spreading *)

\* C10: for every node position and all even grid sizes the 16 weights of the
\* stencil sum to 1 (64 in the units of the model), so that the force deposited on
\* each force grid is the node force times dl/(dx*dy).
C10_PartitionOfUnity ==
    (spreadDone /\ Len(spreadNodes) = 1) =>
        /\ SumWeights(spreadTrace[1], 1) = <<64, 0>>
        /\ GridTotal(mFluidForceGridX) = <<64 * spreadNodes[1].force[1], 0>>
        /\ GridTotal(mFluidForceGridY) = <<64 * spreadNodes[1].force[2], 0>>

\* C11: two nodes at one location carrying forces F and -F leave every cell of
\* both force grids at zero, whatever the location and the grid size.
C11_OppositeForcesCancel ==
    (spreadDone /\ Len(spreadNodes) = 2) =>
        \A c \in DOMAIN mFluidForceGridX :
            mFluidForceGridX[c] = ZZero /\ mFluidForceGridY[c] = ZZero

\* a pair in the first grid column of a grid whose size is no multiple of 4 has
\* been spread with weights that are not zero
C11_Witness ==
    /\ spreadDone /\ Len(spreadNodes) = 2
    /\ mNumGridPtsX % 4 = 2
    /\ spreadNodes[1].loc[1] = 1
    /\ spreadNodes[1].force = <<2, -3>>
    /\ spreadNodes[2].force = <<-2, 3>>
    /\ \E k \in 1..16 : spreadTrace[2][k].weight # ZZero

\* C21: for every node, every even grid size and each of the 16 stencil points
\* (a, b), with i0 = floor(x/dx) - 1 and j0 = floor(y/dy) - 1, the contribution goes
\* to row (j0 + b) mod Ny, column (i0 + a) mod Nx, and its kernel arguments are the
\* distances |x - (i0 + a)*dx| and |y - (j0 + b)*dy| to the unwrapped stencil
\* point, each at most two grid spacings (4 half spacings).
C21_StencilPoint(n, k) ==
    LET a == (k - 1) \div 4
        b == (k - 1) % 4
        i0 == (spreadNodes[n].loc[1] \div 2) - 1
        j0 == (spreadNodes[n].loc[2] \div 2) - 1
        made == spreadTrace[n][k]
    IN /\ made.row = (j0 + b) % mNumGridPtsY
       /\ made.col = (i0 + a) % mNumGridPtsX
       /\ made.dist_x = Abs(spreadNodes[n].loc[1] - 2 * (i0 + a))
       /\ made.dist_y = Abs(spreadNodes[n].loc[2] - 2 * (j0 + b))
       /\ made.dist_x <= 4 /\ made.dist_y <= 4

C21_StencilDistances ==
    spreadDone => \A n \in 1..Len(spreadNodes), k \in 1..16 : C21_StencilPoint(n, k)

-----------------------------------------------------------------------------
(* Claims about the mesh and the division of its elements *)

InUnitSquare(loc) == loc[1] \in 0..(Scale - 1) /\ loc[2] \in 0..(Scale - 1)

DivisionCalled == lastCall.op \in {"divide", "divideShort"}

\* the mesh is exactly as the last call found it
MeshAsBeforeCall ==
    /\ mNodes = lastCall.nodes
    /\ mElements = lastCall.elements
    /\ mElementFluidSources = lastCall.sources

\* C3: on a mesh built with every node in [0,1)x[0,1), after node advections and
\* successful divisions (also of an element that straddles the periodic boundary)
\* every node, old or new, is in [0,1)x[0,1).
C3_NodesInUnitSquare ==
    (~halted /\ (lastCall.op \in {"none", "advect"} \/ lastCall.result = "ok"))
        => \A g \in 1..Len(mNodes) : InUnitSquare(mNodes[g].loc)

\* the number of nodes the divided element had when the last call was made
DividedSize == Len(lastCall.elements[lastCall.index + 1].nodes)

\* C5: a successful division of an element with N nodes adds exactly one element
\* and exactly N nodes, returns the element count before the call, leaves both
\* daughters with N nodes, and changes the index of no earlier node or element:
\* the original nodes stay in the original element, the new nodes are numbered
\* oldNodeCount .. oldNodeCount+N-1 and belong to the new element.
C5_DivisionCounts ==
    (DivisionCalled /\ lastCall.result = "ok") =>
        /\ Len(mElements) = Len(lastCall.elements) + 1
        /\ Len(mNodes) = Len(lastCall.nodes) + DividedSize
        /\ lastCall.ret = Len(lastCall.elements)
        /\ Len(mElements[lastCall.index + 1].nodes) = DividedSize
        /\ Len(mElements[lastCall.ret + 1].nodes) = DividedSize
        /\ \A e \in 1..Len(lastCall.elements) :
              mElements[e].nodes = lastCall.elements[e].nodes
        /\ \A g \in 1..Len(lastCall.nodes) : mNodes[g].elems = lastCall.nodes[g].elems
        /\ \A i \in 1..DividedSize :
              /\ mElements[lastCall.ret + 1].nodes[i] = Len(lastCall.nodes) + i - 1
              /\ mNodes[Len(lastCall.nodes) + i].elems = {lastCall.ret}

\* a division of an element that is not the first of its mesh has succeeded
C5_Witness ==
    /\ DivisionCalled /\ lastCall.result = "ok" /\ ~halted
    /\ Len(lastCall.nodes) > DividedSize
    /\ Len(mNodes) = Len(lastCall.nodes) + DividedSize

\* C6: when a frontier walk of a division cannot reach half the spacing that was
\* set, the call fails with the spacing error and the mesh is exactly as before the
\* call: no node has moved, and no node, element or fluid source has been added.
C6_SpacingErrorLeavesMesh ==
    (DivisionCalled /\ spacingEverSet /\ lastCall.result = "spacing") => MeshAsBeforeCall

\* the side of the line through `centroid` along `axis` that a location is on, by
\* the sign of axis x (centroid - location); a location on the line counts as left
C7_OnLeft(loc, centroid, axis) ==
    LET to_centroid == GetVectorFromAtoB(loc, centroid)
    IN axis[1] * to_centroid[2] - axis[2] * to_centroid[1] >= 0

\* the edges of the element of the last call, as the call found it, whose
\* endpoints are on opposite sides of the line through its centroid along the axis
C7_CrossedEdges ==
    LET elem == lastCall.elements[lastCall.index + 1]
        n == Len(elem.nodes)
        centroid == GetCentroidOfElement(lastCall.nodes, lastCall.elements, mMembraneIndex,
                                         lastCall.index)
        at(i) == lastCall.nodes[elem.nodes[i] + 1].loc
    IN {i \in 1..n : C7_OnLeft(at(i), centroid, lastCall.axis)
                        # C7_OnLeft(at((i % n) + 1), centroid, lastCall.axis)}

\* the element of the last call had a centroid when the call was made
C7_HadCentroid ==
    ~SignedAreaIsZero(lastCall.nodes, lastCall.elements, mMembraneIndex, lastCall.index)

\* C7: a division along an axis whose line through the centroid does not cross
\* exactly two edges of the element fails with the geometry error, and the node
\* locations, nodes, elements and fluid sources of the mesh are as before the call.
C7_GeometryError ==
    (DivisionCalled /\ C7_HadCentroid /\ Cardinality(C7_CrossedEdges) # 2) =>
        (lastCall.result = "geometry" /\ MeshAsBeforeCall)

\* a division along a line that crosses four edges has failed with the geometry error
C7_Witness ==
    /\ DivisionCalled /\ C7_HadCentroid
    /\ Cardinality(C7_CrossedEdges) = 4
    /\ lastCall.result = "geometry"

\* C8: on a mesh, built from lists or read from a reader, whose division spacing
\* was never set, every division call ends in an error and leaves the mesh as it was.
C8_UnsetSpacingRefusesDivision ==
    (DivisionCalled /\ ~spacingEverSet) =>
        (lastCall.result \in {"unset", "geometry", "spacing"} /\ MeshAsBeforeCall)

\* the fluid sources associated with element e
SourcesOf(e) == {k \in 1..Len(mElementFluidSources) : mElementFluidSources[k].elem = e}

\* C9: after construction and after every successful division each element but the
\* membrane has exactly one fluid source, which it holds and which lies at its
\* centroid, no source belongs to two elements, and the membrane has none.
C9_OneSourcePerElement ==
    (~halted /\ (lastCall.op = "none" \/ (DivisionCalled /\ lastCall.result = "ok"))) =>
        \A e \in 0..(Len(mElements) - 1) :
            IF e = mMembraneIndex
            THEN SourcesOf(e) = {} /\ mElements[e + 1].source = NullSource
            ELSE /\ Cardinality(SourcesOf(e)) = 1
                 /\ mElements[e + 1].source + 1 \in SourcesOf(e)
                 /\ \A k \in SourcesOf(e) :
                       mElementFluidSources[k].loc =
                           GetCentroidOfElement(mNodes, mElements, mMembraneIndex, e)


\* the turn at position i of the ring of an element: the cross product of the edge
\* into the node with the edge out of it
C12_Turn(nodes, elem, i) ==
    LET n == GetNumNodes(elem)
        into == GetVectorFromAtoB(GetNodeLocation(nodes, elem, (i + n - 1) % n),
                                  GetNodeLocation(nodes, elem, i))
        out == GetVectorFromAtoB(GetNodeLocation(nodes, elem, i),
                                 GetNodeLocation(nodes, elem, (i + 1) % n))
    IN into[1] * out[2] - into[2] * out[1]

\* the element of the last call was convex when the call was made: its ring turns
\* one way only
C12_WasConvex ==
    LET elem == lastCall.elements[lastCall.index + 1]
        turns == {C12_Turn(lastCall.nodes, elem, i) : i \in 0..(GetNumNodes(elem) - 1)}
    IN /\ ~HasNaN(lastCall.nodes, elem)
       /\ (\A t \in turns : t >= 0) \/ (\A t \in turns : t <= 0)

\* the perpendicular distances, as DivideElement measures them, of the nodes of
\* element e from the line through the centroid the divided element had, along
\* the axis of the last call
C12_Distances(e) ==
    LET centroid == GetCentroidOfElement(lastCall.nodes, lastCall.elements, mMembraneIndex,
                                         lastCall.index)
        unit_axis == UnitVector(lastCall.axis)
        unit_perp == <<-unit_axis[2], unit_axis[1]>>
        elem == ElementAt(mElements, e)
    IN {PerpendicularDist(centroid, GetNodeLocation(mNodes, elem, i), unit_perp) :
            i \in 0..(GetNumNodes(elem) - 1)}

\* the distances of a daughter are all on the side `side` (1 or -1) of the line, at
\* half the spacing or more, and one of them at half the spacing; lengths are
\* compared up to 3/Scale, the rounding of the unit vector and of the snapped and
\* resampled locations to multiples of 1/Scale
C12_Rounding == HalfScale \div 32
C12_Daughter(e, side) ==
    LET half_spacing == mElementDivisionSpacing \div 2
    IN /\ \A d \in C12_Distances(e) : side * d >= half_spacing - C12_Rounding
       /\ \E d \in C12_Distances(e) : Abs(side * d - half_spacing) <= C12_Rounding

\* C12: after a successful division of a convex element with spacing D, every node
\* of one daughter is at perpendicular distance at least D/2 on one side of the line
\* through the original centroid along the axis, every node of the other daughter at
\* least D/2 on the other side, and each daughter has a node at D/2.
C12_DaughtersApart ==
    (DivisionCalled /\ lastCall.result = "ok" /\ C12_WasConvex) =>
        \E side \in {1, -1} :
            C12_Daughter(lastCall.index, side) /\ C12_Daughter(lastCall.ret, -side)


-----------------------------------------------------------------------------
(* Claims about the grid size, the balancing sources and the node spacing *)

\* the ring positions after which the axis of the last call crosses the element it
\* was made on, as the loop of DivideElementAlongGivenAxis collects them
C28_Crossings ==
    LET elem == ElementAt(lastCall.elements, lastCall.index)
        centroid == GetCentroidOfElement(lastCall.nodes, lastCall.elements, mMembraneIndex,
                                         lastCall.index)
    IN IntersectingNodes(lastCall.nodes, elem, 0, centroid,
                         <<-lastCall.axis[2], lastCall.axis[1]>>)

\* the last call was a division along an axis that reached its call of DivideElement
C28_ReachedDivideElement ==
    /\ lastCall.op \in {"divide", "divideShort"}
    /\ ~SignedAreaIsZero(lastCall.nodes, lastCall.elements, mMembraneIndex, lastCall.index)
    /\ Len(C28_Crossings) = 2

\* the element of the last call lists the nodes 0 .. N-1 in order
C28_OwnsFirstNodesInOrder ==
    LET elem == ElementAt(lastCall.elements, lastCall.index)
    IN \A i \in 0..(GetNumNodes(elem) - 1) : GetNodeGlobalIndex(elem, i) = i

\* the two indices handed to DivideElement are the two ring positions collected
C28_HandsCrossings ==
    LET elem == ElementAt(lastCall.elements, lastCall.index)
    IN \A k \in 1..2 : GetNodeLocalIndex(elem, C28_Crossings[k]) = C28_Crossings[k]

\* C28: for every element of the mesh, also one whose nodes' global indices differ
\* from their ring positions, DivideElementAlongGivenAxis hands to DivideElement the
\* ring positions of the two nodes after which the axis crosses the element.
C28_RingPositionsHanded == C28_ReachedDivideElement => C28_HandsCrossings

\* an element that lists the nodes 0 .. N-1 in order is handed its ring positions
C28_RingPositionsHandedToFirstElement ==
    (C28_ReachedDivideElement /\ C28_OwnsFirstNodesInOrder) => C28_HandsCrossings

\* the elements of the mesh whose node sequence contains the node with global index g
C29_ElementsListing(g) ==
    {e \in 0..(Len(mElements) - 1) :
        \E i \in 0..(GetNumNodes(ElementAt(mElements, e)) - 1) :
            GetNodeGlobalIndex(ElementAt(mElements, e), i) = g}

\* C29: on a mesh whose nodes are each listed by exactly one element, after any
\* sequence of successful divisions the set of containing elements of every node
\* has exactly one member, the index of the one element whose node sequence
\* contains the node; no node is in both daughters of a division.
C29_OneContainingElement ==
    ~everFailed =>
        \A g \in 0..(Len(mNodes) - 1) :
            /\ Cardinality(mNodes[g + 1].elems) = 1
            /\ mNodes[g + 1].elems = C29_ElementsListing(g)

\* a mesh that has been divided twice with success and holds three elements
C29_Witness ==
    /\ ~everFailed /\ divisionCalls = 2
    /\ Len(mElements) = 3
    /\ lastCall.result = "ok"
    /\ \A g \in 0..(Len(mNodes) - 1) : Cardinality(C29_ElementsListing(g)) = 1
    /\ \E g \in 0..(Len(mNodes) - 1) : mNodes[g + 1].elems = {2}

\* the last call was a successful division of an element that had corner markers
C30_DividedWithCorners ==
    /\ lastCall.op \in {"divide", "divideShort"}
    /\ lastCall.result = "ok"
    /\ ElementAt(lastCall.elements, lastCall.index).corners # <<>>

\* the global indices of the nodes in the node sequence of element e
C30_NodesOf(e) ==
    {GetNodeGlobalIndex(ElementAt(mElements, e), i) :
        i \in 0..(GetNumNodes(ElementAt(mElements, e)) - 1)}

\* C30: after a successful division of an element that has corner markers, every
\* corner marker of each daughter refers to a node of that daughter's own node
\* sequence, and both daughters have as many corner markers as the element had.
C30_CornersWithinDaughters ==
    C30_DividedWithCorners =>
        \A e \in {lastCall.index, lastCall.ret} :
            /\ Len(ElementAt(mElements, e).corners)
                  = Len(ElementAt(lastCall.elements, lastCall.index).corners)
            /\ \A c \in 1..Len(ElementAt(mElements, e).corners) :
                  ElementAt(mElements, e).corners[c] \in C30_NodesOf(e)

\* both daughters hold the corner markers the divided element had, so the markers
\* of both refer to nodes of the daughter that kept the nodes of the divided element
C30_CornersOfDividedElementKept ==
    C30_DividedWithCorners =>
        \A e \in {lastCall.index, lastCall.ret} :
            /\ ElementAt(mElements, e).corners
                  = ElementAt(lastCall.elements, lastCall.index).corners
            /\ \A c \in 1..Len(ElementAt(mElements, e).corners) :
                  ElementAt(mElements, e).corners[c] \in C30_NodesOf(lastCall.index)

\* C13: on a mesh built from lists, after any sequence of SetNumGridPtsX,
\* SetNumGridPtsY and SetNumGridPtsXAndY calls, every balancing source lies on
\* y = 0 and consecutive balancing sources are 4 * dx apart, dx = 1 / Nx for the
\* current number Nx of grid points.
C13_BalancingSourcesSpaced ==
    (builtFrom = "lists" /\ divisionCalls = 0) =>
        /\ \A k \in 1..Len(mBalancingFluidSources) : mBalancingFluidSources[k].loc[2] = 0
        /\ \A k \in 1..(Len(mBalancingFluidSources) - 1) :
              mBalancingFluidSources[k + 1].loc[1] - mBalancingFluidSources[k].loc[1]
                  = (4 * Scale) \div meshNumGridPtsX

\* C14: in every state reached by construction, SetNumGridPts calls and successful
\* divisions, GetSpacingRatio() is Nx times the total perimeter of the elements
\* other than the membrane divided by their total number of nodes, taken from the
\* node locations and the elements the mesh has now.
C14_SpacingRatioIsCurrent ==
    (builtFrom = "lists" /\ ~halted /\ ~everFailed) =>
        GetSpacingRatio = meshNumGridPtsX * MeanNodeSpacing(mNodes, mElements, mMembraneIndex)


-----------------------------------------------------------------------------
(* Claims about the force modules *)

\* the last operation was a call of AddImmersedBoundaryForceContribution
ForceCalled == lastForceOp.op = "force"

\* C15: the cell-cell force extends the attributes of the nodes only in its first
\* call of AddImmersedBoundaryForceContribution, by exactly three attributes at the
\* end (E-cadherin 1, P-cadherin 0, integrin 0); a later call adds no attribute and
\* leaves the protein values as they were.
C15_ProteinsAddedOnce ==
    ForceCalled =>
        \A n \in 1..Len(popNodes) :
            popNodes[n].attributes =
                IF lastForceOp.first /\ lastForceOp.result = "ok"
                THEN lastForceOp.before[n].attributes \o <<1, 0, 0>>
                ELSE lastForceOp.before[n].attributes

\* a second call has left nodes that had one attribute with that attribute and the
\* three proteins of the first call
C15_Witness ==
    /\ ForceCalled /\ ~lastForceOp.first /\ lastForceOp.result = "ok"
    /\ forceObject.mProteinNodeAttributeLocations = <<1, 2, 3>>
    /\ \A n \in 1..Len(popNodes) : popNodes[n].attributes = <<7, 1, 0, 0>>

\* C16: in every state of a cell-cell force object, from its construction on and
\* through UseLinearSpringLaw, UseMorsePotential, saving and restoring, exactly one
\* of IsLinearSpringLaw() and IsMorsePotential() is true.
C16_ExactlyOneLaw ==
    forceObject.class = "cellcell" => (IsLinearSpringLaw # IsMorsePotential)

C18_Contribution(n) ==
    <<popNodes[n].force[1] - lastForceOp.before[n].force[1],
      popNodes[n].force[2] - lastForceOp.before[n].force[2]>>

\* the pairs of the last call whose nodes are in different elements, nearer than
\* the interaction distance, in elements of equal average node spacing
C18_InteractingPairs ==
    {k \in 1..Len(lastForceOp.pairs) :
        LET a == lastForceOp.pairs[k][1]
            b == lastForceOp.pairs[k][2]
        IN /\ popNodes[a].elem # popNodes[b].elem
           /\ norm_2(GetVectorFromAtoB(popNodes[a].loc, popNodes[b].loc)) < InteractionDistance
           /\ elemSpacing[popNodes[a].elem + 1] = elemSpacing[popNodes[b].elem + 1]}

\* C18: for a pair of nodes of different elements within the interaction distance
\* whose elements have equal average node spacing, the contributions added to the
\* two nodes are exact negatives of each other, under the linear spring law and
\* under the Morse potential.
C18_EqualAndOpposite ==
    (ForceCalled /\ lastForceOp.result = "ok") =>
        \A k \in C18_InteractingPairs :
            LET a == C18_Contribution(lastForceOp.pairs[k][1])
                b == C18_Contribution(lastForceOp.pairs[k][2])
            IN a[1] = -b[1] /\ a[2] = -b[2]

\* under the Morse potential a pair at an oblique distance has received two
\* contributions that are not zero
C18_Witness ==
    /\ ForceCalled /\ lastForceOp.result = "ok"
    /\ lastForceOp.pairs = <<<<3, 2>>>>
    /\ C18_InteractingPairs = {1}
    /\ forceObject.mMorse /\ ~forceObject.mLinearSpring
    /\ C18_Contribution(3)[1] # 0 /\ C18_Contribution(3)[2] # 0
    /\ C18_Contribution(2)[1] # 0

\* the pairs of the last call whose nodes are in different elements and nearer, on
\* the torus, than the interaction distance
C25_QualifyingPairs ==
    {k \in 1..Len(lastForceOp.pairs) :
        LET a == lastForceOp.pairs[k][1]
            b == lastForceOp.pairs[k][2]
        IN /\ popNodes[a].elem # popNodes[b].elem
           /\ norm_2(GetVectorFromAtoB(popNodes[a].loc, popNodes[b].loc)) < InteractionDistance}

\* the nodes of the qualifying pairs of the last call
C25_NodesOfQualifyingPairs ==
    {lastForceOp.pairs[k][1] : k \in C25_QualifyingPairs}
        \cup {lastForceOp.pairs[k][2] : k \in C25_QualifyingPairs}

\* C25: in one call of the cell-cell force a pair (a, b) adds a contribution to a
\* and to b exactly when a and b are in different elements and their torus distance
\* is strictly less than the interaction distance: a call leaves unchanged the
\* applied force of every node that is in no such pair, and a call handed one such
\* pair, not at the rest length, changes the applied force of both of its nodes.
C25_OnlyQualifyingPairsContribute ==
    (ForceCalled /\ lastForceOp.result = "ok") =>
        /\ \A n \in 1..Len(popNodes) :
              n \notin C25_NodesOfQualifyingPairs => C18_Contribution(n) = <<0, 0>>
        /\ \A k \in C25_QualifyingPairs :
              LET a == lastForceOp.pairs[k][1]
                  b == lastForceOp.pairs[k][2]
              IN (/\ Len(lastForceOp.pairs) = 1
                  /\ norm_2(GetVectorFromAtoB(popNodes[a].loc, popNodes[b].loc))
                        # forceObject.mRestLength)
                    => /\ C18_Contribution(a) # <<0, 0>>
                       /\ C18_Contribution(b) # <<0, 0>>

\* a call handed the pair that is 20/200 apart across the periodic boundary has
\* changed the applied forces of its two nodes and of no other node
C25_Witness ==
    /\ ForceCalled /\ lastForceOp.result = "ok"
    /\ lastForceOp.pairs = <<<<6, 4>>>>
    /\ C25_QualifyingPairs = {1}
    /\ C18_Contribution(6) # <<0, 0>> /\ C18_Contribution(4) # <<0, 0>>
    /\ \A n \in {1, 2, 3, 5} : C18_Contribution(n) = <<0, 0>>

\* C26: in every evaluation of the cell-cell force the rest length used is 0.25
\* times the interaction distance of the population, whatever value SetRestLength
\* was given and whether it was called before or after the first call of
\* AddImmersedBoundaryForceContribution.
C26_RestLengthIsQuarterOfInteractionDistance ==
    (ForceCalled /\ lastForceOp.result = "ok") =>
        forceObject.mRestLength = InteractionDistance \div 4

\* the first call of AddImmersedBoundaryForceContribution uses 0.25 times the
\* interaction distance
C26_FirstCallUsesQuarter ==
    (ForceCalled /\ lastForceOp.result = "ok" /\ lastForceOp.first) =>
        forceObject.mRestLength = InteractionDistance \div 4

\* C19: a call of GetAverageNodeSpacingOfElement with recalculate true, or on an
\* element that stores no value yet, returns the perimeter of the element as it is
\* at the call divided by its number of nodes and stores it; a call with
\* recalculate false on an element that stores a value returns the stored value,
\* which is what the last computing call returned, and leaves it stored, whatever
\* has moved or divided the element since.
C19_Current(c) ==
    GetSurfaceAreaOfElement(c.nodes, c.elements, c.index)
        \div Len(c.elements[c.index + 1].nodes)

C19_StoredSpacing ==
    lastSpacingCall.op = "spacing" =>
        IF lastSpacingCall.recalculate \/ lastSpacingCall.stored = DoubleUnset
        THEN /\ lastSpacingCall.ret = C19_Current(lastSpacingCall)
             /\ mAverageNodeSpacing[lastSpacingCall.index] = lastSpacingCall.ret
        ELSE /\ lastSpacingCall.ret = lastSpacingCall.stored
             /\ lastSpacingCall.ret = lastComputedSpacing[lastSpacingCall.index]
             /\ mAverageNodeSpacing[lastSpacingCall.index] = lastSpacingCall.stored

\* a call without recalculation returned a stored value that is no longer the
\* perimeter over the number of nodes, the element having divided since
C19_Witness ==
    /\ lastSpacingCall.op = "spacing"
    /\ ~lastSpacingCall.recalculate
    /\ lastSpacingCall.stored # DoubleUnset
    /\ lastSpacingCall.ret # C19_Current(lastSpacingCall)
    /\ lastCall.op = "divide" /\ lastCall.result = "ok"
    /\ lastCall.index = lastSpacingCall.index

\* C20: GetVolumeOfElement never returns a negative value, and for an element whose
\* nodes are all less than 0.5 from its first node in each component it returns the
\* area of the polygon wherever the element has been translated to, the nodes being
\* reduced into [0,1) x [0,1): every call returns what the first call returned.
C20_Within(limit) ==
    \A i \in 1..Len(volOutline), c \in 1..2 :
        Abs(volOutline[i][c] - volOutline[1][c]) <= limit

RECURSIVE C20_Shoelace(_, _)
C20_Shoelace(outline, i) ==
    IF i > Len(outline) THEN 0
    ELSE LET this == outline[i]
             next == outline[(i % Len(outline)) + 1]
         IN (this[1] * next[2] - next[1] * this[2]) + C20_Shoelace(outline, i + 1)

C20_Returns(limit) ==
    lastVolumeCall.op = "volume" =>
        /\ lastVolumeCall.ret >= 0
        /\ C20_Within(limit) => lastVolumeCall.ret = firstVolume

C20_VolumeInvariantBelowHalf ==
    /\ C20_Returns(HalfScale - 1)
    /\ (lastVolumeCall.op = "volume" /\ C20_Within(HalfScale - 1))
          => lastVolumeCall.ret = Abs(C20_Shoelace(volOutline, 1))

\* C20 as stated, nodes exactly 0.5 from the first node included
C20_VolumeInvariant == C20_Returns(HalfScale)

\* the volume was taken of a translated element that straddles x = 0 or y = 0
C20_Witness ==
    /\ lastVolumeCall.op = "volume"
    /\ lastVolumeCall.moves > 0
    /\ C20_Within(HalfScale - 1)
    /\ lastVolumeCall.ret > 0
    /\ \E g \in 1..Len(volNodes), c \in 1..2 :
          Abs(lastVolumeCall.nodes[g].loc[c] - lastVolumeCall.nodes[1].loc[c]) > HalfScale

-----------------------------------------------------------------------------
(* Claims about the upwind scheme *)

\* C23: for all grid sizes Nx, Ny >= 2, whenever the loops of UpwindScheme are at a
\* cell (y, x) the running indices are prev_x = (x - 1 + Nx) mod Nx,
\* next_x = (x + 1) mod Nx, prev_y = (y - 1 + Ny) mod Ny and next_y = (y + 1) mod Ny,
\* so that every cell has read its x-neighbour in column (x -+ 1) mod Nx of its row
\* and its y-neighbour in row (y -+ 1) mod Ny of its column.
C23_NeighbourIndices ==
    /\ (upY < upNumGridPtsY /\ upX < upNumGridPtsX) =>
          /\ prev_x = (upX - 1 + upNumGridPtsX) % upNumGridPtsX
          /\ next_x = (upX + 1) % upNumGridPtsX
          /\ prev_y = (upY - 1 + upNumGridPtsY) % upNumGridPtsY
          /\ next_y = (upY + 1) % upNumGridPtsY
    /\ lastUpwindRead # NoUpwindRead =>
          /\ lastUpwindRead.col =
                (lastUpwindRead.x + (IF lastUpwindRead.in_x > 0 THEN 0 - 1 ELSE 1)
                    + upNumGridPtsX) % upNumGridPtsX
          /\ lastUpwindRead.row =
                (lastUpwindRead.y + (IF lastUpwindRead.in_y > 0 THEN 0 - 1 ELSE 1)
                    + upNumGridPtsY) % upNumGridPtsY

\* the last cell of the last row of a grid that is not square has read the first
\* column and the first row as its next neighbours
C23_Witness ==
    /\ upNumGridPtsX # upNumGridPtsY
    /\ lastUpwindRead.y = upNumGridPtsY - 1
    /\ lastUpwindRead.x = upNumGridPtsX - 1
    /\ lastUpwindRead.in_x <= 0 /\ lastUpwindRead.col = 0
    /\ lastUpwindRead.in_y <= 0 /\ lastUpwindRead.row = 0

-----------------------------------------------------------------------------
(* Claims about the membrane elasticity force *)

\* C24: the spring between node i and node i+1 of an element uses ten times the
\* spring constant and four times the rest length of the element exactly if node i
\* or node i+1 is apical or basal; with both nodes lateral it uses the values of
\* the element.
C24_EitherEndpoint ==
    \A e \in 1..Len(memSprings) : \A i \in 1..Len(memSprings[e]) :
        LET elem == memElements[e]
            spring == memSprings[e][i]
            tagged == \/ memNodes[elem.nodes[spring.node_idx + 1] + 1].region < 2
                      \/ memNodes[elem.nodes[spring.next_idx + 1] + 1].region < 2
        IN IF tagged
           THEN /\ spring.spring_constant = 10 * elem.spring_constant
                /\ spring.rest_length = 4 * elem.rest_length
           ELSE /\ spring.spring_constant = elem.spring_constant
                /\ spring.rest_length = elem.rest_length

\* C27: for an element whose consecutive nodes are at distinct locations, whatever
\* the regions of its nodes, the forces one call of the membrane elasticity force
\* adds to the nodes of the element sum to zero: after any number of calls the
\* applied forces of its nodes sum to zero.
RECURSIVE C27_Sum(_, _, _)
C27_Sum(nodes, g, c) ==
    IF g > Len(nodes) THEN 0 ELSE nodes[g].applied[c] + C27_Sum(nodes, g + 1, c)

C27_Distinct ==
    \A e \in 1..Len(memElements) : \A i \in 1..Len(memElements[e].nodes) :
        LET elem == memElements[e]
        IN memNodes[elem.nodes[i] + 1].loc
              # memNodes[elem.nodes[(i % Len(elem.nodes)) + 1] + 1].loc

C27_ContributionsCancel ==
    (memCalls > 0 /\ C27_Distinct) =>
        /\ \A g \in 1..Len(memNodes), c \in 1..2 : memNodes[g].applied[c] # NotANumber
        /\ C27_Sum(memNodes, 1, 1) = 0
        /\ C27_Sum(memNodes, 1, 2) = 0

\* forces that are not zero were added to a quadrilateral that straddles the
\* boundary and has nodes of all three regions
C27_Witness ==
    /\ memCalls > 0 /\ C27_Distinct
    /\ Len(memNodes) = 4
    /\ {memNodes[g].region : g \in 1..4} = Regions
    /\ \A g \in 1..4 : memNodes[g].applied # <<0, 0>>

====
